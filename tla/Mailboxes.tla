----------------------------- MODULE Mailboxes -----------------------------
(***************************************************************************)
(* What the communication layer promises to the workers: a message that a  *)
(* worker pushes into a channel is pulled at most once by each worker it   *)
(* is for, and after every earlier message of the same sender in the same  *)
(* channel to the same worker.  Threads, connections, buffers and failures *)
(* are not part of the promise.                                            *)
(***************************************************************************)
EXTENDS Integers, Sequences, Orders

CONSTANTS Senders, Receivers, Channels

VARIABLES
    sent,      \* sent[s]: the messages that s has pushed
    received   \* received[v][c]: the messages that v has pulled from c

mail_vars == <<sent, received>>

\* The messages of s to v in channel c, in the order they were pushed.
Posted(s, v, c) ==
    LET ms == sent[s]
    IN  Selected(ms, {i \in DOMAIN ms : ms[i].channel = c /\ v \in ms[i].to})
\* The ones v has pulled.
Pulled(s, v, c) ==
    LET ms == received[v][c] IN Selected(ms, {i \in DOMAIN ms : ms[i].from = s})

MailInit ==
    /\ sent = [s \in Senders |-> <<>>]
    /\ received = [v \in Receivers |-> [c \in Channels |-> <<>>]]

\* A message of s is added, whatever it is.
Push(s) ==
    /\ Len(sent'[s]) = Len(sent[s]) + 1
    /\ sent' = [sent EXCEPT ![s] = Append(@, sent'[s][Len(sent[s]) + 1])]
    /\ sent'[s][Len(sent[s]) + 1].from = s
    /\ UNCHANGED received

Pull(s, v, c) ==
    /\ Len(Pulled(s, v, c)) < Len(Posted(s, v, c))
    /\ received' = [received EXCEPT ![v][c] =
           Append(@, Posted(s, v, c)[Len(Pulled(s, v, c)) + 1])]
    /\ UNCHANGED sent

MailNext ==
    \/ \E s \in Senders : Push(s)
    \/ \E s \in Senders, v \in Receivers, c \in Channels : Pull(s, v, c)

MailSpec == MailInit /\ [][MailNext]_mail_vars

=============================================================================
