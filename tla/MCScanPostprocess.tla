-------------------------- MODULE MCScanPostprocess --------------------------
(* One target is a subnet with two hosts; a card of the first host was saved    *)
(* long ago under an id that MP VM has dropped.                                 *)
EXTENDS ScanPostprocess, TLC

CONSTANTS a1, a2, old, t1

MCAssets == {a1, a2}
MCAssetsOf == t1 :> {a1, a2}
MCHostOf == (a1 :> "host1") @@ (a2 :> "host2") @@ (old :> "host1")
=============================================================================
