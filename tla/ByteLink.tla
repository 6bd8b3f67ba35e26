------------------------------ MODULE ByteLink ------------------------------
(***************************************************************************)
(* What the owner of a connection relies on: bytes leave in the order they *)
(* were given, none after the connection is down, and the owner is told    *)
(* once that it is, after which it hears nothing more.                     *)
(***************************************************************************)
EXTENDS Naturals

CONSTANTS MaxGiven,  \* bytes the owner may give
          MaxHeard   \* bytes the peer may send

VARIABLES up, told,   \* told: how often the owner was told of the break
          given, gone, \* bytes given by the owner, and those that have left
          heard       \* bytes handed to the owner

Init == up = TRUE /\ told = 0 /\ given = 0 /\ gone = 0 /\ heard = 0

Give == /\ given' \in (given + 1)..MaxGiven
        /\ UNCHANGED <<up, told, gone, heard>>

Leave == /\ up
         /\ gone' \in (gone + 1)..given
         /\ UNCHANGED <<up, told, given, heard>>

Hear == /\ up
        /\ heard' \in (heard + 1)..MaxHeard
        /\ UNCHANGED <<up, told, given, gone>>

Down == /\ up
        /\ up' = FALSE
        /\ UNCHANGED <<told, given, gone, heard>>

Tell == /\ ~up /\ told = 0
        /\ told' = 1
        /\ UNCHANGED <<up, given, gone, heard>>

Next == Give \/ Leave \/ Hear \/ Down \/ Tell

Spec == Init /\ [][Next]_<<up, told, given, gone, heard>>
=============================================================================
