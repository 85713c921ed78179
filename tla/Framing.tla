------------------------------ MODULE Framing --------------------------------
(***************************************************************************)
(* How a Message crosses a zmq socket: as a frame with its Meta and one frame  *)
(* per piece of data, all but the last with ZMQ_SNDMORE.  A mailbox has one    *)
(* socket per node, which its sender thread and the threads that call Barrier  *)
(* or SyncAndGet share.  The receiver tells frames apart by their place alone. *)
(***************************************************************************)
EXTENDS Integers, Sequences, Functions

CONSTANTS
    Nodes,      \* that send to one receiver
    Threads,    \* of each node
    NoThread,
    Programs    \* what may be sent: node -> thread -> messages

\* A message is its meta, which begins with its node and thread, and its data.
FramingAssumption ==
    \A p \in Programs : \A n \in Nodes, t \in Threads : \A i \in DOMAIN p[n][t] :
        SubSeq(p[n][t][i].meta, 1, 2) = <<n, t>> /\ DOMAIN p[n][t][i] = {"meta", "data"}

VARIABLES
    to_send,    \* node -> thread -> messages it has not begun to send
    mu_,        \* node -> the thread in Send, or NoThread
    frames,     \* node -> frames of the message in Send that are not sent
    socket,     \* node -> frames at its socket, or on the way
    receiver_,  \* frames of the message that the receiver's socket hands out
    msg,        \* what Recv has put together
    place,      \* i of Recv: 0 the identity, 1 the meta, then data
    delivered,  \* messages that Recv has returned
    program     \* history: what there was to send

framingVars == <<to_send, mu_, frames, socket, receiver_, msg, place, delivered, program>>

Nothing == [meta |-> <<>>, data |-> <<>>]

FramingInit ==
    /\ program \in Programs
    /\ to_send = program
    /\ mu_ = [n \in Nodes |-> NoThread]
    /\ frames = [n \in Nodes |-> <<>>]
    /\ socket = [n \in Nodes |-> <<>>]
    /\ receiver_ = <<>>
    /\ msg = Nothing /\ place = 0
    /\ delivered = <<>>

-----------------------------------------------------------------------------
\* more: ZMQ_SNDMORE
FramesOf(m) ==
    <<[content |-> m.meta, more |-> m.data # <<>>]>>
    \o [i \in 1 .. Len(m.data) |-> [content |-> m.data[i], more |-> i < Len(m.data)]]

\* Mailbox::Send, frame by frame.
BeginSend(n, t) ==
    /\ to_send[n][t] # <<>> /\ mu_[n] = NoThread
    /\ mu_' = [mu_ EXCEPT ![n] = t]
    /\ frames' = [frames EXCEPT ![n] = FramesOf(Head(to_send[n][t])) \o @]
    /\ to_send' = [to_send EXCEPT ![n][t] = Tail(@)]
    /\ UNCHANGED <<socket, receiver_, msg, place, delivered, program>>
SendFrame(n) ==
    /\ frames[n] # <<>>
    /\ socket' = [socket EXCEPT ![n] = Append(@, Head(frames[n]))]
    /\ frames' = [frames EXCEPT ![n] = Tail(@)]
    /\ UNCHANGED <<to_send, mu_, receiver_, msg, place, delivered, program>>
EndSend(n) ==
    /\ mu_[n] # NoThread /\ frames[n] = <<>>
    /\ mu_' = [mu_ EXCEPT ![n] = NoThread]
    /\ UNCHANGED <<to_send, frames, socket, receiver_, msg, place, delivered, program>>

\* zmq's ROUTER socket: the frames up to one without more arrive together, those of
\* one node in order and those of no other between them, behind its identity.
Arrive(n) ==
    /\ receiver_ = <<>>
    /\ \E last \in 1 .. Len(socket[n]) :
          /\ ~socket[n][last].more /\ \A i \in 1 .. last - 1 : socket[n][i].more
          /\ receiver_' = <<[content |-> n, more |-> TRUE]>> \o SubSeq(socket[n], 1, last)
          /\ socket' = [socket EXCEPT ![n] = SubSeq(@, last + 1, Len(@))]
    /\ UNCHANGED <<to_send, mu_, frames, msg, place, delivered, program>>

\* Mailbox::Recv: a frame, and the message is complete if no more follow.
Recv ==
    /\ receiver_ # <<>>
    /\ LET frame == Head(receiver_)
           read  == CASE place = 0 -> msg
                      [] place = 1 -> [msg EXCEPT !.meta = frame.content]
                      [] OTHER     -> [msg EXCEPT !.data = Append(@, frame.content)]
       IN  IF frame.more
           THEN msg' = read /\ place' = place + 1 /\ UNCHANGED delivered
           ELSE msg' = Nothing /\ place' = 0 /\ delivered' = Append(delivered, read)
    /\ receiver_' = Tail(receiver_)
    /\ UNCHANGED <<to_send, mu_, frames, socket, program>>

AllSent ==
    /\ receiver_ = <<>>
    /\ \A n \in Nodes :
          socket[n] = <<>> /\ mu_[n] = NoThread /\ \A t \in Threads : to_send[n][t] = <<>>

FramingNext ==
    \/ \E n \in Nodes :
          SendFrame(n) \/ EndSend(n) \/ Arrive(n) \/ \E t \in Threads : BeginSend(n, t)
    \/ Recv
    \/ AllSent /\ UNCHANGED framingVars

FramingSpec == FramingInit /\ [][FramingNext]_framingVars

-----------------------------------------------------------------------------
\* The messages of a thread that have come, in order.
Of(n, t) == SelectSeq(delivered, LAMBDA m : SubSeq(m.meta, 1, 2) = <<n, t>>)

\* Messages arrive whole, with the meta and the data they were sent with, and those
\* of a thread in the order it sent them, whoever shares its socket: no frame is
\* taken for one of another message, although a frame says only that more follow.
MessagesIntact ==
    /\ \A n \in Nodes, t \in Threads :
          Of(n, t) = SubSeq(program[n][t], 1, Len(Of(n, t)))
    /\ \A i \in DOMAIN delivered : \E n \in Nodes, t \in Threads :
          delivered[i] \in Range(program[n][t])
    /\ AllSent => \A n \in Nodes, t \in Threads : Of(n, t) = program[n][t]
=============================================================================
