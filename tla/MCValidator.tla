---------------------------- MODULE MCValidator ----------------------------
(***************************************************************************)
(* Two parts of one PEP that do not share state, each from its own         *)
(* initial state.                                                          *)
(*   gate: tokens that expire at different instants, a ring with fewer     *)
(*     slots than tokens, a token of the next epoch, one that carries a    *)
(*     passport and one that fails a static check.                         *)
(*   proxy: request "a" has a body and a query, "b" only a query, with a   *)
(*     value that looks like a mask; one exchange at a time in the vault.  *)
(***************************************************************************)
EXTENDS Validator, Anonymiser, TLC

CONSTANTS t1, t2, t3, bad
VARIABLE part

MCIat == (t1 :> 0) @@ (t2 :> 0) @@ (t3 :> 0) @@ (bad :> 0)
MCExp == (t1 :> 1) @@ (t2 :> 2) @@ (t3 :> 2) @@ (bad :> 2)
MCTokEpoch == (t1 :> 0) @@ (t2 :> 0) @@ (t3 :> 1) @@ (bad :> 0)
MCDefect == (t1 :> "") @@ (t2 :> "") @@ (t3 :> "") @@ (bad :> "bad-signature")
MCMetered == {t1}

Symmetry == Permutations(Handlers)

Field(path, v) == [path |-> path, val |-> v]
MCBody ==
  ("a" :> <<Field(<<"note">>, "iban"), Field(<<"misc">>, Empty), Field(<<"misc">>, "x"),
            Field(<<"misc">>, "y")>>) @@
  ("b" :> <<>>)
MCQuery ==
  ("a" :> <<Field(<<"query", "id">>, "u")>>) @@
  ("b" :> <<Field(<<"query", "sec">>, "v"), Field(<<"query", "id">>, Reserved)>>)
MCKeep == {<<"note">>, <<"query">>}
MCMask == {<<"query", "sec">>, <<"*", "id">>}
MCTokenIat == ("a" :> 0) @@ ("b" :> 1)
MCTokenExp == ("a" :> 2) @@ ("b" :> 3)

MCInit == part \in {"gate", "proxy"} /\ Init /\ AnoInit
MCNext ==
  \/ part = "gate" /\ Next /\ UNCHANGED <<anoVars, part>>
  \/ part = "proxy" /\ AnoNext /\ UNCHANGED <<vars, part>>
MCSpec == MCInit /\ [][MCNext]_<<vars, anoVars, part>>
=============================================================================
