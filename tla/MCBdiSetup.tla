----------------------------- MODULE MCBdiSetup -----------------------------
(***************************************************************************)
(* Values of the constants of BdiSetup: a firmware file whose records are  *)
(* consecutive, too long for a block together, and apart, of even and odd  *)
(* length; and a BDI that is found with the old version, or without a      *)
(* firmware and with new logic.                                            *)
(***************************************************************************)
EXTENDS BdiSetup

MCRecords ==
  <<[first |-> 1, len |-> 2], [first |-> 3, len |-> 1], [first |-> 4, len |-> 2],
    [first |-> 7, len |-> 1]>>

MCFound == {<<"old", "old">>, <<"erased", "new">>}
=============================================================================
