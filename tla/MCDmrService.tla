---------------------------- MODULE MCDmrService ----------------------------
(* Instances of DmrService for TLC.                                        *)
EXTENDS DmrService, TLC

CONSTANTS w1, w2, nc1, nc2, txt, good1, secret, noise, badvars, badattrs

TwoWorkers == {w1, w2}
Nc == {nc1}
TwoNc == {nc1, nc2}
SecondNc == {nc2}
NcAndText == {nc1, nc2, txt}
Nothing == {}

Secret == {secret}
Noise == {noise}
BadVariables == {badvars}
BadAttributes == {badattrs}

NoLeak == {good1, noise, badvars}
Kinds == {good1, secret, badvars, badattrs}
GoodAndBadAttributes == {good1, badattrs}

=============================================================================
