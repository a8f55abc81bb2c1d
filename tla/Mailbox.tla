------------------------------- MODULE Mailbox -------------------------------
(***************************************************************************)
(* What the IPC bus promises its users about one message, whatever the     *)
(* interleaving of the processes that share the database: a message is     *)
(* offered to pollers during one uninterrupted period, is then settled     *)
(* (acknowledged, read or expired) and can only be retired after that,     *)
(* that is archived or deleted, for good.  MessageBus implements this      *)
(* specification; Delegation and Delivery, two users of the bus, are       *)
(* modelled on top of it.                                                  *)
(***************************************************************************)

CONSTANT Msg            \* the message identifiers

VARIABLE box            \* box[m]: where message m stands

Places == {"unsent", "queued", "settled", "retired"}

BoxTypeOK == box \in [Msg -> Places]

BoxInit == box = [m \in Msg |-> "unsent"]

\* The messages a poll may return.
Queued == {m \in Msg : box[m] = "queued"}

\* One insert makes one message pollable.
Send(m) ==
    /\ box[m] = "unsent"
    /\ box' = [box EXCEPT ![m] = "queued"]

\* An acknowledgement settles one message, an expiry sweep settles many.
Settle(S) ==
    /\ S \subseteq Queued
    /\ box' = [m \in Msg |-> IF m \in S THEN "settled" ELSE box[m]]

\* Archiving retires all the settled messages it finds expired; a delete
\* retires one message, pending or not.
Retire(S) ==
    /\ \A m \in S : box[m] \in {"queued", "settled"}
    /\ box' = [m \in Msg |-> IF m \in S THEN "retired" ELSE box[m]]

BoxNext ==
    \/ \E m \in Msg : Send(m)
    \/ \E S \in SUBSET Msg : Settle(S) \/ Retire(S)

BoxSpec == BoxInit /\ [][BoxNext]_box

=============================================================================
