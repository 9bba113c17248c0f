---------------------------- MODULE WindowTransfer ----------------------------
(***************************************************************************)
(* What a windowed transfer promises, without packets, channels, processes *)
(* or connections: each sender has a file; the receiver obtains a growing  *)
(* prefix of it, item by item and in order; the sender never runs more     *)
(* than one window ahead of what was confirmed, and a confirmation covers  *)
(* exactly what the receiver has obtained.                                 *)
(***************************************************************************)
EXTENDS Naturals, Sequences

CONSTANTS Senders, Files, Sizes

VARIABLES
  file,       \* what each sender transfers
  size,       \* its window, 0 until it is chosen
  sent,       \* items sent
  obtained,   \* what the receiver has of each file
  confirmed   \* items the sender knows the receiver has

vars == <<file, size, sent, obtained, confirmed>>

Init ==
  /\ file = [s \in Senders |-> <<>>]
  /\ size = [s \in Senders |-> 0]
  /\ sent = [s \in Senders |-> 0]
  /\ obtained = [s \in Senders |-> <<>>]
  /\ confirmed = [s \in Senders |-> 0]

Choose(s) ==
  /\ size[s] = 0
  /\ \E f \in Files : file' = [file EXCEPT ![s] = f]
  /\ \E n \in Sizes : size' = [size EXCEPT ![s] = n]
  /\ UNCHANGED <<sent, obtained, confirmed>>

SendItem(s) ==
  /\ sent[s] < Len(file[s])
  /\ sent[s] < confirmed[s] + size[s]
  /\ sent' = [sent EXCEPT ![s] = @ + 1]
  /\ UNCHANGED <<file, size, obtained, confirmed>>

ObtainItem(s) ==
  /\ Len(obtained[s]) < sent[s]
  /\ obtained' = [obtained EXCEPT ![s] = Append(@, file[s][Len(@) + 1])]
  /\ UNCHANGED <<file, size, sent, confirmed>>

Confirm(s) ==
  /\ confirmed[s] < Len(obtained[s])
  /\ Len(obtained[s]) = sent[s]
  /\ confirmed' = [confirmed EXCEPT ![s] = sent[s]]
  /\ UNCHANGED <<file, size, sent, obtained>>

Next ==
  \E s \in Senders : Choose(s) \/ SendItem(s) \/ ObtainItem(s) \/ Confirm(s)

Spec == Init /\ [][Next]_vars

=============================================================================
