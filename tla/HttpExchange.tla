---------------------------- MODULE HttpExchange ----------------------------
(***************************************************************************)
(* What a connection promises its peer: the answers of the requests it has  *)
(* sent, whole, in their order and each once.  The connection ends when     *)
(* there is nothing left to tell, or because of a fault of the peer's.      *)
(***************************************************************************)
EXTENDS Naturals, Sequences, SequencesExt

CONSTANT Units   \* what an answer is made of

VARIABLES
    answers,   \* what each request of the peer is to be answered
    asked,     \* how many of them have arrived whole
    told,      \* what the peer has been sent
    fault,     \* the peer broke the connection or sent no HTTP
    over

vars == <<answers, asked, told, fault, over>>

Promised == FlattenSeq(SubSeq(answers, 1, asked))

Init ==
    /\ answers \in Seq(Seq(Units))
    /\ asked = 0
    /\ told = <<>>
    /\ fault = FALSE
    /\ over = FALSE

Ask ==
    /\ ~over
    /\ asked < Len(answers)
    /\ asked' \in (asked + 1)..Len(answers)
    /\ UNCHANGED <<answers, told, fault, over>>

Tell ==
    /\ ~over
    /\ IsStrictPrefix(told, told')
    /\ IsPrefix(told', Promised)
    /\ UNCHANGED <<answers, asked, fault, over>>

Fault ==
    /\ ~over
    /\ fault' = TRUE
    /\ UNCHANGED <<answers, asked, told, over>>

End ==
    /\ ~over
    /\ fault \/ told = Promised
    /\ over' = TRUE
    /\ UNCHANGED <<answers, asked, told, fault>>

Next == Ask \/ Tell \/ Fault \/ End

Spec == Init /\ [][Next]_vars
=============================================================================
