---------------------------- MODULE OrderedReader ----------------------------
(* What the reader of one connection promises to a probe that asks and        *)
(* listens on it: the frames come one by one, each once and in the order they *)
(* were sent; a request comes back with its own answer, whole, with an empty  *)
(* one if the server has closed, or not at all, and neither of these before   *)
(* every frame that was sent has been handed out.  Nothing is promised of a   *)
(* connection on which the server mixes a frame into an answer.               *)
EXTENDS Naturals, Sequences

CONSTANTS
  Empty,       \* the answer of a request that was given up
  Whole(_)     \* Whole(n) is the answer to the n-th request

VARIABLES
  call,        \* free, waiting for an answer, or raised
  asked,       \* requests sent
  reply,       \* what the last request returned
  sent,        \* frames the server has sent
  handed,      \* the numbers of the frames handed out
  shut,        \* the server has closed the connection
  mixed        \* a frame was sent in the middle of an answer

vars == <<call, asked, reply, sent, handed, shut, mixed>>

Init ==
  /\ call = "free" /\ asked = 0 /\ reply = Empty
  /\ sent = 0 /\ handed = <<>> /\ shut = FALSE /\ mixed = FALSE

Send ==
  /\ ~shut /\ asked > 0
  /\ sent' = sent + 1
  /\ mixed' \in {mixed, mixed \/ call # "free"}
  /\ UNCHANGED <<call, asked, reply, handed, shut>>

Shut ==
  /\ shut' = TRUE
  /\ UNCHANGED <<call, asked, reply, sent, handed, mixed>>

Ask ==
  /\ call = "free"
  /\ call' = "waiting" /\ asked' = asked + 1 /\ reply' = Empty
  /\ UNCHANGED <<sent, handed, shut, mixed>>

Deliver ==
  /\ call # "raised" /\ Len(handed) < sent
  /\ handed' = Append(handed, Len(handed) + 1)
  /\ UNCHANGED <<call, asked, reply, sent, shut, mixed>>

Answer ==
  /\ call = "waiting"
  /\ call' = "free" /\ reply' = Whole(asked)
  /\ UNCHANGED <<asked, sent, handed, shut, mixed>>

GiveUp ==
  /\ call = "waiting" /\ Len(handed) = sent
  /\ call' = IF shut THEN "free" ELSE "raised"
  /\ UNCHANGED <<asked, reply, sent, handed, shut, mixed>>

Lapsed == mixed /\ mixed'

Next == Send \/ Shut \/ Ask \/ Deliver \/ Answer \/ GiveUp \/ Lapsed

Spec == Init /\ [][Next]_vars
==============================================================================
