----------------------------- MODULE MsgChannel -----------------------------
(* What secure_send and secure_recv promise to their callers: the messages    *)
(* arrive whole, in order and once, and the receiver is told of the end only  *)
(* when nothing is left to receive, or in place of an empty message, or when  *)
(* the connection was reset.                                                  *)
EXTENDS Naturals, Sequences

CONSTANT Messages

VARIABLES
  sent,       \* the messages of which every byte was accepted by send
  received,   \* the messages that secure_recv has returned
  broken,     \* the connection was reset
  ended       \* secure_recv has returned length 0

chanVars == <<sent, received, broken, ended>>

ChanInit ==
  /\ sent = << >>
  /\ received = << >>
  /\ broken = FALSE
  /\ ended = FALSE

Pending == Len(received) < Len(sent)
NextMessage == sent[Len(received) + 1]

ChanSend ==
  /\ ~broken
  /\ \E m \in Messages : sent' = Append(sent, m)
  /\ UNCHANGED <<received, broken, ended>>

ChanBreak == broken' = TRUE /\ UNCHANGED <<sent, received, ended>>

ChanReceive ==
  /\ ~ended
  /\ Pending
  /\ NextMessage # << >>
  /\ received' = Append(received, NextMessage)
  /\ UNCHANGED <<sent, broken, ended>>

ChanEnd ==
  /\ ~ended
  /\ (Pending /\ ~broken) => NextMessage = << >>
  /\ ended' = TRUE
  /\ UNCHANGED <<sent, received, broken>>

ChanNext == ChanSend \/ ChanBreak \/ ChanReceive \/ ChanEnd

ChanSpec == ChanInit /\ [][ChanNext]_chanVars

=============================================================================
