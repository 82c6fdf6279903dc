----------------------------- MODULE NetSocket -----------------------------
(***************************************************************************)
(* The buffered TCP socket of src/src/eelium/eel_net.c: the EEL wrapper,   *)
(* driven by the VM thread, shares a REAL_ENET_socket with a sender thread *)
(* that polls the socket's FIFO.  `closed`, `status` and `sender` are      *)
(* plain fields both threads read and write without a lock; the FIFO is    *)
(* the SFifo ring, taken here as the bounded queue that module shows it to *)
(* be.  Bytes are numbered in the order TCPSend accepts them.              *)
(***************************************************************************)
EXTENDS Integers, Sequences, SequencesExt

CONSTANTS Capacity,    \* sfifo_space of an empty FIFO
          Fragment,    \* N2S_SEND_FRAGMENT
          ArgSizes,    \* sizes TCPSend's arguments can have
          MaxArgs,     \* bound of the model: arguments of one TCPSend
          MaxBytes,    \* bound of the model: bytes offered to TCPSend
          MaxSetups    \* bound of the model: TCPSetBuffer calls

ASSUME CapacityAssumption == Capacity \in Nat \ {0}
ASSUME FragmentAssumption == Fragment \in Nat \ {0}
ASSUME ArgSizesAssumption == ArgSizes \subseteq Nat \ {0}
ASSUME BoundsAssumption ==
    MaxArgs \in Nat /\ MaxBytes \in Nat /\ MaxSetups \in Nat

VARIABLES
    rs,         \* the REAL_ENET_socket: "open", or "freed"
    closed,     \* rs->closed
    status,     \* rs->status: "ok", "write" error or "closed"
    sender,     \* rs->sender # NULL
    memory,     \* rs->fifo.buffer: "none", "held", "stale" once it was freed
    fifo,       \* bytes in the FIFO
    thread,     \* the sender thread: "none", "poll", "drain", "leave", "done"
    count,      \* n2s_sender_thread's `count`
    vpc,        \* where the VM thread is in the call it makes
    args,       \* TCPSend: sizes still to be sent
    accepted,   \* history: bytes TCPSend has taken
    wire,       \* history: bytes handed to the NET2 layer
    setups      \* TCPSetBuffer calls so far

shared == <<rs, closed, status, sender, memory, fifo>>
vars == <<shared, thread, count, vpc, args, accepted, wire, setups>>

Running == thread \in {"poll", "drain", "leave"}
Bytes(from, n) == [k \in 1 .. n |-> from + k]
Space == Capacity - Len(fifo)

Init ==
    /\ rs = "open" /\ closed = 0 /\ status = "ok" /\ sender = FALSE
    /\ memory = "none" /\ fifo = << >>
    /\ thread = "none" /\ count = 0
    /\ vpc = "idle" /\ args = << >>
    /\ accepted = 0 /\ wire = << >> /\ setups = 0

Return == vpc' = "idle"

-----------------------------------------------------------------------------
(* The VM thread. *)

\* TCPSend up to its loop.
n2_tcp_send ==
    /\ vpc = "idle" /\ rs = "open" /\ status = "ok"
    /\ \E n \in 1 .. MaxArgs : args' \in [1 .. n -> ArgSizes]
    /\ accepted + FoldSeq(+, 0, args') <= MaxBytes
    /\ vpc' = "send"
    /\ UNCHANGED <<shared, thread, count, accepted, wire, setups>>

\* Mutation: falls back to a direct send when the FIFO is full.
SendLookFallback ==
    /\ vpc = "send" /\ args # << >>
    /\ vpc' = IF sender /\ Space >= Head(args) THEN "buffered" ELSE "direct"
    /\ UNCHANGED <<shared, thread, count, args, accepted, wire, setups>>

\* One look at `sender` chooses how an argument is sent.
SendLook ==
    /\ vpc = "send" /\ args # << >>
    /\ vpc' = IF sender THEN "buffered" ELSE "direct"
    /\ UNCHANGED <<shared, thread, count, args, accepted, wire, setups>>

\* All arguments are sent, or the next one cannot be sent (XARGUMENTS).
SendReturn ==
    /\ vpc = "send"
    /\ Return
    /\ args' = << >>
    /\ UNCHANGED <<shared, thread, count, accepted, wire, setups>>

\* Mutation: no look at sfifo_space, so sfifo_write takes what fits.
SendTruncated ==
    /\ vpc = "buffered"
    /\ LET n == IF Space < Head(args) THEN Space ELSE Head(args)
       IN  fifo' = fifo \o Bytes(accepted, n)
    /\ accepted' = accepted + Head(args)
    /\ args' = Tail(args)
    /\ vpc' = "send"
    /\ UNCHANGED <<rs, closed, status, sender, memory, thread, count, wire, setups>>

\* Buffered: all of the argument or XBUFOVERFLOW; earlier arguments stay.
SendBuffered ==
    /\ vpc = "buffered"
    /\ IF Space < Head(args)
       THEN Return /\ args' = << >> /\ UNCHANGED <<fifo, accepted>>
       ELSE /\ fifo' = fifo \o Bytes(accepted, Head(args))
            /\ accepted' = accepted + Head(args)
            /\ args' = Tail(args)
            /\ vpc' = "send"
    /\ UNCHANGED <<rs, closed, status, sender, memory, thread, count, wire, setups>>

\* Direct: the NET2 layer takes the bytes or fails (XDEVICEWRITE).
SendDirect ==
    /\ vpc = "direct"
    /\ \/ /\ wire' = wire \o Bytes(accepted, Head(args))
          /\ accepted' = accepted + Head(args)
          /\ args' = Tail(args)
          /\ vpc' = "send"
       \/ Return /\ args' = << >> /\ UNCHANGED <<wire, accepted>>
    /\ UNCHANGED <<shared, thread, count, setups>>

\* TCPSetBuffer: an old sender thread is told to die and waited for.
n2_tcp_setbuf ==
    /\ vpc = "idle" /\ rs = "open" /\ setups < MaxSetups
    /\ setups' = setups + 1
    /\ IF sender THEN closed' = 2 /\ vpc' = "join"
                 ELSE vpc' = "init" /\ UNCHANGED closed
    /\ UNCHANGED <<rs, status, sender, memory, fifo, thread, count, args, accepted, wire>>

\* SDL_WaitThread returned: the FIFO goes with all that is in it.
SetbufJoin ==
    /\ vpc = "join" /\ ~Running
    /\ memory' = "stale"
    /\ vpc' = "init"
    /\ UNCHANGED <<rs, closed, status, sender, fifo, thread, count, args, accepted, wire, setups>>

\* sfifo_init and SDL_CreateThread: either can fail.
SetbufInit ==
    /\ vpc = "init"
    /\ fifo' = << >>
    /\ \/ /\ memory' = "none" /\ Return             \* XMEMORY
          /\ UNCHANGED <<sender, thread>>
       \/ /\ memory' = "stale" /\ Return            \* XTHREADCREATE
          /\ sender' = FALSE
          /\ UNCHANGED thread
       \/ /\ memory' = "held" /\ vpc' = "store"
          /\ thread' = "poll"
          /\ UNCHANGED sender
    /\ UNCHANGED <<rs, closed, status, count, args, accepted, wire, setups>>

\* rs->sender = the handle, while the new thread runs already.
SetbufStore ==
    /\ vpc = "store"
    /\ sender' = TRUE
    /\ Return
    /\ UNCHANGED <<rs, closed, status, memory, fifo, thread, count, args, accepted, wire, setups>>

\* TCPClose: leaves a running sender the rest, or closes at once.
n2_tcp_close ==
    /\ vpc = "idle" /\ rs = "open" /\ status = "ok"
    /\ IF sender
       THEN /\ closed' = 1
            /\ status' = "closed"
            /\ UNCHANGED <<rs, memory>>
       ELSE /\ rs' = "freed"
            /\ memory' = IF memory = "none" THEN "none" ELSE "stale"
            /\ UNCHANGED <<closed, status>>
    /\ UNCHANGED <<sender, fifo, thread, count, vpc, args, accepted, wire, setups>>

\* The last reference to the wrapper goes.
n2s_destruct ==
    /\ vpc = "idle" /\ rs = "open"
    /\ IF sender THEN closed' = 1 /\ vpc' = "last"
                 ELSE rs' = "freed" /\ UNCHANGED <<closed, vpc>>
    /\ sender => UNCHANGED rs
    /\ UNCHANGED <<status, sender, memory, fifo, thread, count, args, accepted, wire, setups>>

\* Mutation: the destructor does not wait for the thread.
DestructAtOnce ==
    /\ vpc = "last"
    /\ memory' = "stale"
    /\ rs' = "freed"
    /\ Return
    /\ UNCHANGED <<closed, status, sender, fifo, thread, count, args, accepted, wire, setups>>

\* SDL_WaitThread returned: nobody else uses the socket.
DestructJoin ==
    /\ vpc = "last" /\ ~Running
    /\ memory' = "stale"
    /\ rs' = "freed"
    /\ Return
    /\ UNCHANGED <<closed, status, sender, fifo, thread, count, args, accepted, wire, setups>>

-----------------------------------------------------------------------------
(* n2s_sender_thread. *)

ThreadSame == UNCHANGED <<rs, closed, memory, vpc, args, accepted, setups>>

\* The loop condition; SDL_Delay and the look at the FIFO come later.
SenderLoop ==
    /\ thread = "poll"
    /\ thread' = IF closed = 0 /\ status = "ok" THEN "drain" ELSE "leave"
    /\ count' = 0
    /\ ThreadSame /\ UNCHANGED <<status, sender, fifo, wire>>

\* Mutation: an empty FIFO ends the thread (`break` for `continue`).
SenderCountBreak ==
    /\ thread = "drain" /\ count = 0
    /\ IF fifo = << >> THEN thread' = "leave" /\ UNCHANGED count
                       ELSE count' = Len(fifo) /\ UNCHANGED thread
    /\ ThreadSame /\ UNCHANGED <<status, sender, fifo, wire>>

\* count = sfifo_used, taken once for a whole round.
SenderCount ==
    /\ thread = "drain" /\ count = 0
    /\ IF fifo = << >> THEN thread' = "poll" /\ UNCHANGED count
                       ELSE count' = Len(fifo) /\ UNCHANGED thread
    /\ ThreadSame /\ UNCHANGED <<status, sender, fifo, wire>>

\* Mutation: whole fragments only, also for the last one.
SenderSendWhole ==
    /\ thread = "drain" /\ count > 0
    /\ fifo' = SubSeq(fifo, Fragment + 1, Len(fifo))
    /\ wire' = wire \o SubSeq(fifo, 1, IF Len(fifo) < Fragment THEN Len(fifo) ELSE Fragment)
    /\ count' = count - Fragment
    /\ thread' = IF count' = 0 THEN "poll" ELSE "drain"
    /\ ThreadSame /\ UNCHANGED <<sender, status>>

\* One fragment: read from the FIFO, then sent, or lost with the error.
SenderSend ==
    /\ thread = "drain" /\ count > 0
    /\ LET n == IF count > Fragment THEN Fragment ELSE count
       IN  /\ fifo' = SubSeq(fifo, n + 1, Len(fifo))
           /\ \/ /\ wire' = wire \o SubSeq(fifo, 1, n)
                 /\ count' = count - n
                 /\ thread' = IF count' = 0 THEN "poll" ELSE "drain"
                 /\ UNCHANGED status
              \/ /\ status' = "write"
                 /\ count' = 0
                 /\ thread' = "poll"
                 /\ UNCHANGED wire
    /\ ThreadSame /\ UNCHANGED sender

\* rs->sender = NULL is the last thing the thread does to the socket.
SenderLeave ==
    /\ thread = "leave"
    /\ thread' = "done"
    /\ sender' = FALSE
    /\ ThreadSame /\ UNCHANGED <<status, fifo, count, wire>>

-----------------------------------------------------------------------------
\* Nothing is left to do once the socket is freed.
Gone == rs = "freed" /\ ~Running /\ UNCHANGED vars

VM ==
    \/ n2_tcp_send \/ SendLook \/ SendReturn \/ SendBuffered \/ SendDirect
    \/ n2_tcp_setbuf \/ SetbufJoin \/ SetbufInit \/ SetbufStore
    \/ n2_tcp_close \/ n2s_destruct \/ DestructJoin

Sender == SenderLoop \/ SenderCount \/ SenderSend \/ SenderLeave

Next == VM \/ Sender \/ Gone

Spec == Init /\ [][Next]_vars

\* The sender thread is scheduled, and a call of the VM thread ends.
FairSpec ==
    /\ Spec
    /\ WF_vars(Sender)
    /\ WF_vars(SendLook \/ SendReturn \/ SendBuffered \/ SendDirect)
    /\ WF_vars(SetbufJoin \/ SetbufInit \/ SetbufStore \/ DestructJoin)

-----------------------------------------------------------------------------
TypeOK ==
    /\ rs \in {"open", "freed"}
    /\ closed \in 0 .. 2
    /\ status \in {"ok", "write", "closed"}
    /\ sender \in BOOLEAN
    /\ memory \in {"none", "held", "stale"}
    /\ fifo \in Seq(Nat) /\ Len(fifo) <= Capacity
    /\ thread \in {"none", "poll", "drain", "leave", "done"}
    /\ count \in 0 .. Len(fifo)
    /\ vpc \in {"idle", "send", "buffered", "direct", "join", "init", "store", "last"}
    /\ args \in Seq(ArgSizes)
    /\ accepted \in Nat /\ wire \in Seq(Nat) /\ setups \in 0 .. MaxSetups

(***************************************************************************)
(* TCPSend switches between the FIFO and direct sends while the sender     *)
(* thread comes and goes; what reaches the peer is never reordered and     *)
(* never sent twice.                                                       *)
(***************************************************************************)
WireInOrder ==
    \A i, j \in 1 .. Len(wire) : i < j => wire[i] < wire[j]

(***************************************************************************)
(* As long as nobody closed or re-buffered the socket and no write failed, *)
(* every byte TCPSend accepted was sent or waits in the FIFO.              *)
(***************************************************************************)
NothingLost ==
    closed = 0 /\ status = "ok" /\ rs = "open"
        => wire \o fifo = Bytes(0, accepted)

(***************************************************************************)
(* The sender thread uses the FIFO and the socket until its very last      *)
(* store: TCPClose, TCPSetBuffer and the destructor free neither before.   *)
(***************************************************************************)
NoUseAfterFree == Running => rs = "open" /\ memory = "held"

(***************************************************************************)
(* A socket that stays open sends what was buffered.                       *)
(***************************************************************************)
BufferedIsSent ==
    \A k \in 1 .. MaxBytes :
        accepted >= k ~>
            \/ \E i \in 1 .. Len(wire) : wire[i] = k
            \/ status # "ok" \/ closed # 0 \/ rs = "freed"
=============================================================================
