----------------------------- MODULE NetQueue -----------------------------
(***************************************************************************)
(* The receiving side of one node of libraries/RF24Network (the AVR build):*)
(* the radio's FIFO, update(), enqueue() with the reassembly of fragments, *)
(* the user cache frame_queue and read(); and at the other end of the air  *)
(* the senders, which run the fragmenting write() of the same library.     *)
(*                                                                         *)
(* A frame carries a piece <<sender, message, index>> of a message instead *)
(* of bytes, so that a message put together wrongly can be told from a     *)
(* whole one; sizes are the real ones.  Ids are what the 16-bit next_id    *)
(* gives: every node counts from 1 at power-up, so two nodes may use the   *)
(* same id.  Types that never reach the cache (pings, network acks,        *)
(* EXTERNAL_DATA_TYPE, which no sketch sends) are left out.                *)
(***************************************************************************)
EXTENDS Integers, Sequences, FiniteSets

CONSTANTS
  Senders,
  Messages,      \* of each sender: the number of fragments of each message
  IdBase,        \* of each sender: the id before its first message
  PlainSize,     \* bytes of a message that fits one frame        (16)
  TailSize,      \* bytes of a last fragment
  MainBuffer,    \* MAIN_BUFFER_SIZE                       (144 + 10)
  FramePayload,  \* max_frame_payload_size                       (24)
  FrameHeader,   \* FRAME_HEADER_SIZE                            (10)
  IntMod,        \* an unsigned int of the AVR                 (2^16)
  FifoSize,      \* frames the radio holds                        (3)
  MaxCopies      \* nodes that relay a frame to this one (multicastRelay)

ASSUME SenderAssumption ==
  /\ Messages \in [Senders -> Seq(Nat \ {0})]
  /\ IdBase \in [Senders -> Nat]

ASSUME SizeAssumption ==
  /\ {PlainSize, TailSize, MainBuffer, FramePayload, FrameHeader, FifoSize,
      MaxCopies} \subseteq Nat \ {0}
  /\ PlainSize <= FramePayload
  /\ TailSize <= FramePayload
  /\ FrameHeader <= 10
  /\ IntMod \in Nat
  /\ IntMod > 2 * (MainBuffer + FrameHeader + FramePayload)

VARIABLES
  out,        \* of each sender: message, piece and attempt it is at
  fifo,       \* frames in the radio
  queue,      \* frame_queue: messages ready for read()
  used,       \* next_frame - frame_queue, in bytes
  frag,       \* frag_queue: the message being put together
  hold,       \* FLAG_HOLD_INCOMING
  listening,  \* the radio receives
  draining,   \* update() is in its loop
  arrived     \* the last message of each sender that reached the cache

vars == <<out, fifo, queue, used, frag, hold, listening, draining, arrived>>
node == <<queue, used, frag, hold, listening, draining, arrived>>

MaxPayload == MainBuffer - 10     \* MAX_PAYLOAD_SIZE, used as a term of a sum

\* The same macro, which has no parentheses, as a dividend
MaxFragments == MainBuffer - 10 \div FramePayload

Init ==
  /\ out = [s \in Senders |-> [n |-> 1, i |-> 1, tries |-> 0]]
  /\ fifo = <<>>
  /\ queue = <<>>
  /\ used = 0
  /\ frag = [from |-> "none", id |-> 0, reserved |-> 0, pieces |-> <<>>, size |-> 0]
  /\ hold = FALSE
  /\ listening = TRUE
  /\ draining = FALSE
  /\ arrived = [s \in Senders |-> 0]

---------------------------------------------------------------------------
(***************************************************************************)
(* A sender: write() splits a long message and tries each fragment up to   *)
(* three times; a message of one frame gets one try.                       *)
(***************************************************************************)
Sending(s) == out[s].n <= Len(Messages[s])

\* Fragment i of message n of a sender
Fragment(s, n, i) ==
  LET k == Messages[s][n]
  IN [from |-> s, id |-> IdBase[s] + n, piece |-> <<s, n, i>>,
      type |-> IF k = 1 THEN "plain" ELSE IF i = 1 THEN "first"
                 ELSE IF i = k THEN "last" ELSE "more",
      reserved |-> IF k = 1 \/ i = k THEN 0 ELSE k - i + 1,
      size |-> IF k = 1 THEN PlainSize ELSE IF i = k THEN TailSize
                 ELSE FramePayload]

FrameOf(s) == Fragment(s, out[s].n, out[s].i)

NextMessage(s) ==
  out' = [out EXCEPT ![s] = [n |-> @.n + 1, i |-> 1, tries |-> 0]]

Sent(s) ==
  IF out[s].i = Messages[s][out[s].n]
  THEN NextMessage(s)
  ELSE out' = [out EXCEPT ![s].i = @ + 1, ![s].tries = 0]

SlipSkips(s) ==        \* slip: after three failures it goes on with the next fragment
  IF out[s].tries < 2 /\ Messages[s][out[s].n] > 1
  THEN out' = [out EXCEPT ![s].tries = @ + 1]
  ELSE Sent(s)

Failed(s) ==
  IF out[s].tries < 2 /\ Messages[s][out[s].n] > 1
  THEN out' = [out EXCEPT ![s].tries = @ + 1]
  ELSE NextMessage(s)

\* A frame that is not heard fails; one that is may fail as well, when its
\* acknowledgement is lost.  The radio acknowledges while it has room.
Transmit(s) ==
  /\ Sending(s)
  /\ \/ /\ listening
        /\ \E c \in 1 .. MaxCopies :
             /\ Len(fifo) + c <= FifoSize
             /\ fifo' = fifo \o [j \in 1 .. c |-> FrameOf(s)]
        /\ Sent(s) \/ Failed(s)
     \/ UNCHANGED fifo /\ Failed(s)
  /\ UNCHANGED node

---------------------------------------------------------------------------
(***************************************************************************)
(* The node: update() and what it calls.                                   *)
(***************************************************************************)
Available == queue # <<>>

\* Bytes beyond the cache have been overwritten: what follows is undefined
\* behaviour, and the model ends there.
Overrun == used > MainBuffer

Store(m) ==
  /\ queue' = Append(queue, m)
  /\ used' = used + FrameHeader + m.size
  /\ arrived' = [arrived EXCEPT ![m.from] = m.pieces[1][2]]

Refuse == UNCHANGED <<queue, used, arrived>>
Hold   == hold' = TRUE /\ listening' = FALSE

EnqueuePlain(f) ==
  /\ IF f.size + used <= MainBuffer
     THEN Store([from |-> f.from, id |-> f.id, pieces |-> <<f.piece>>,
                 size |-> f.size])
     ELSE Refuse
  /\ UNCHANGED <<frag, hold, listening>>

Repeats(f) == frag.id = f.id /\ frag.from = f.from

EnqueueFirst(f) ==
  /\ Refuse
  /\ CASE f.reserved > MaxFragments ->
            /\ frag' = [frag EXCEPT !.reserved = 0]
            /\ UNCHANGED <<hold, listening>>
       [] f.reserved <= MaxFragments /\ Repeats(f) ->
            UNCHANGED <<frag, hold, listening>>
       [] f.reserved <= MaxFragments /\ ~Repeats(f) ->
            /\ frag' = [from |-> f.from, id |-> f.id, reserved |-> f.reserved - 1,
                        pieces |-> <<f.piece>>, size |-> f.size]
            /\ IF f.reserved * 24 > MaxPayload - used
               THEN Hold ELSE UNCHANGED <<hold, listening>>

\* The fragment that fits what has been collected.  The last one is not
\* asked for its place in the sequence, and none for its sender.
SlipAnyId(f) ==        \* slip: the id is not compared
  /\ frag.reserved # 0
  /\ f.type = "last" \/ f.reserved = frag.reserved

Follows(f) ==
  /\ frag.reserved # 0
  /\ f.type = "last" \/ f.reserved = frag.reserved
  /\ frag.id = f.id

\* MAX_PAYLOAD_SIZE - (next_frame - frame_queue) >= message_size, compared
\* as 16-bit unsigned numbers
SlipWholeBuffer(size) ==   \* slip: the room of the frame header is counted too
  (MainBuffer - used) % IntMod >= size

Fits(size) == (MaxPayload - used) % IntMod >= size

EnqueueMore(f) ==
  LET whole == [frag EXCEPT !.pieces = Append(@, f.piece), !.size = @ + f.size]
  IN IF frag.size + f.size > MaxPayload
     THEN /\ frag' = [frag EXCEPT !.reserved = 0]
          /\ Refuse
          /\ UNCHANGED <<hold, listening>>
     ELSE CASE ~Follows(f) ->
                 Refuse /\ UNCHANGED <<frag, hold, listening>>
            [] Follows(f) /\ f.type = "more" ->
                 /\ frag' = [whole EXCEPT !.reserved = @ - 1]
                 /\ Refuse
                 /\ UNCHANGED <<hold, listening>>
            [] OTHER ->
                 /\ frag' = [whole EXCEPT !.reserved = 0]
                 /\ IF Fits(whole.size)
                    THEN /\ Store([from |-> frag.from, id |-> frag.id,
                                   pieces |-> whole.pieces, size |-> whole.size])
                         /\ UNCHANGED <<hold, listening>>
                    ELSE Refuse /\ Hold

enqueue(f) ==
  CASE f.type = "plain" -> EnqueuePlain(f)
    [] f.type = "first" -> EnqueueFirst(f)
    [] OTHER -> EnqueueMore(f)

\* Entering update(): with little room left the radio is not drained.  An
\* empty cache clears the flag, and leaves the radio as it is.
SlipForever ==         \* slip: the flag of a hold is never cleared
  /\ ~draining
  /\ ~(hold \/ used + 34 > MainBuffer)
  /\ draining' = TRUE
  /\ UNCHANGED <<out, fifo, queue, used, frag, hold, listening, arrived>>

Update ==
  /\ ~draining
  /\ ~((hold \/ used + 34 > MainBuffer) /\ Available)
  /\ draining' = TRUE
  /\ hold' = (hold /\ ~(hold \/ used + 34 > MainBuffer))
  /\ UNCHANGED <<out, fifo, queue, used, frag, listening, arrived>>

\* A turn of the loop of update(): one frame, or the end
Drain ==
  /\ draining
  /\ ~Overrun
  /\ IF fifo # <<>>
     THEN /\ fifo' = Tail(fifo)
          /\ enqueue(Head(fifo))
          /\ UNCHANGED <<out, draining>>
     ELSE /\ draining' = FALSE
          /\ UNCHANGED <<out, fifo, queue, used, frag, hold, listening, arrived>>

Read ==
  /\ ~draining
  /\ ~Overrun
  /\ Available
  /\ queue' = Tail(queue)
  /\ used' = used - (Head(queue).size + FrameHeader)
  /\ UNCHANGED <<out, fifo, frag, hold, listening, draining, arrived>>

\* The node's own write() ends with startListening()
Write ==
  /\ ~draining
  /\ ~listening
  /\ listening' = TRUE
  /\ UNCHANGED <<out, fifo, queue, used, frag, hold, draining, arrived>>

Next ==
  \/ \E s \in Senders : Transmit(s)
  \/ Update
  \/ Drain
  \/ Read
  \/ Write

Spec == Init /\ [][Next]_vars

\* loop() calls update() and reads what is available; what it sends is its
\* own affair, and so is what the others send
LiveSpec ==
  /\ Spec
  /\ WF_vars(Update)
  /\ WF_vars(Drain)
  /\ WF_vars(Read)

---------------------------------------------------------------------------
\* What a message in the cache stands for: a message that was sent, if all
\* of its fragments are there and no other, and number 0 if not.
Meaning(m) ==
  LET s == m.pieces[1][1]
      n == m.pieces[1][2]
  IN IF m.pieces = [i \in 1 .. Messages[s][n] |-> <<s, n, i>>]
     THEN <<s, n>> ELSE <<s, 0>>

Promise == INSTANCE MessageQueue
  WITH inbox <- [j \in DOMAIN queue |-> Meaning(queue[j])],
       Total <- [s \in Senders |-> Len(Messages[s])]

\* The cache is the lossy queue of whole messages its application takes it
\* for: with ids that differ between senders, nothing lost or repeated on the
\* air, no hold and no interleaving delivers a message torn, twice or late.
QueueOfMessages == Promise!Spec

\* Messages in the cache never reach past its end.
CacheHolds == ~Overrun

\* The cache is overrun in two ways only, and no interleaving of senders,
\* holds and retries adds a third: by a message of one frame, whose header
\* enqueue() leaves out of account, by no more than that header; or by a
\* message of fragments that was complete when less than 10 bytes were left,
\* where the 16-bit difference wraps and any length passes.
OverrunCause ==
  Overrun => LET m      == queue[Len(queue)]
                 before == used - (FrameHeader + m.size)
             IN IF Len(m.pieces) = 1
                THEN used <= MainBuffer + FrameHeader
                ELSE before \in MaxPayload + 1 .. MainBuffer

\* A node whose application reads gets its radio emptied again, whatever
\* hold it was under: the flag is cleared once the cache is empty.
RadioDrained == fifo # <<>> ~> fifo = <<>> \/ Overrun
===========================================================================
