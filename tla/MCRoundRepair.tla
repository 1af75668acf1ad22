--------------------------- MODULE MCRoundRepair ---------------------------
(* An instance of RoundRepair for TLC: all short histories over a palette of *)
(* messages that has complete, partial, anonymous, misplaced and malformed   *)
(* rounds, and one message whose identity a synthetic one would take.        *)
EXTENDS RoundRepair

CONSTANTS A, B, U, V, W     \* message identities
CONSTANT MaxHistory

Msg(id, role, calls, results) ==
    [id |-> id, role |-> role, calls |-> calls, results |-> results]

CallsOne == Msg(A, "assistant", <<"c1">>, << >>)
CallsTwo == Msg(B, "assistant", <<"c1", "c2">>, << >>)

Palette == {CallsOne, CallsTwo,
            Msg(NoID, "assistant", <<"c1">>, << >>),
            Msg(U, "tool", << >>, <<"c1">>),
            Msg(V, "tool", << >>, <<"c2">>),
            Msg(W, "user", << >>, << >>),
            Msg(SyntheticID(<<CallsOne>>), "user", << >>, << >>)}

\* Messages that make every history containing them invalid.
Malformed == {Msg(W, "user", <<"c1">>, << >>),
              Msg(U, "assistant", << >>, <<"c1">>),
              Msg(U, "tool", << >>, << >>),
              Msg(U, "tool", <<"c2">>, <<"c1">>),
              Msg(A, "assistant", <<"c1", "c1">>, << >>),
              Msg(A, "assistant", <<NoCall>>, << >>)}

MCHistoriesOf(n) == UNION {[1..k -> Palette] : k \in 0..n}
MCHistories ==
    MCHistoriesOf(MaxHistory)
        \cup {h \o <<m>> : h \in MCHistoriesOf(1), m \in Malformed}

Declare(a, b, n) == (A :> a) @@ (B :> b) @@ (NoID :> n)
MCDeclarations ==
    {Declare(a, b, "none") : a \in {"none", "interrupted"},
                             b \in {"none", "interrupted", "complete"}}
        \cup {Declare("none", "pending", "none"),
              Declare("unknown", "none", "none"),
              Declare("none", "none", "interrupted")}
MCDecisions == {{}, {A}, {B}, {A, B}}

=============================================================================
