------------------------------ MODULE BinStream ------------------------------
(***************************************************************************)
(* base/serialization: streams of bytes that values are pushed on and popped  *)
(* off, by readers that know the types in the order they were written.       *)
(*                                                                         *)
(* A token stands for the bytes of one value of fixed size, lengths included. *)
(***************************************************************************)
EXTENDS Integers, SequencesExt

CONSTANTS
    Values,      \* what may be written
    MaxTokens    \* bound: tokens in all streams

Streams == {"a", "b"}
Other(s) == IF s = "a" THEN "b" ELSE "a"

VARIABLES
    buffer,    \* stream -> buffer_
    front,     \* stream -> front_
    unread     \* history: stream -> values written and not read yet

streamVars == <<buffer, front, unread>>

\* get_remained_buffer, of length size()
Remained(s) == SubSeq(buffer[s], front[s] + 1, Len(buffer[s]))

Nested(tokens, values) == [type |-> "stream", content |-> tokens, values |-> values]

\* operator<< : the length first, for all that has one.
EncodePod(x) == <<x>>
EncodePair(p) == EncodePod(p[1]) \o EncodePod(p[2])
EncodeVector(xs) == EncodePod(Len(xs)) \o FlattenSeq([i \in DOMAIN xs |-> EncodePod(xs[i])])
EncodeString(chars) == EncodePod(Len(chars)) \o chars
EncodeElements(f, order) ==
    EncodePod(Len(order)) \o FlattenSeq([i \in DOMAIN order |-> EncodePair(<<order[i], f[order[i]]>>)])
EncodeMap(f) == EncodeElements(f, SetToSortSeq(DOMAIN f, <))
\* in the order of the buckets
EncodeUnorderedMap(f, buckets) == EncodeElements(f, buckets)
EncodePtr(xs) == EncodeVector(xs)
EncodeStream(tokens) == EncodePod(Len(tokens)) \o tokens

Encode(v) ==
    CASE v.type = "pod" -> EncodePod(v.content)
      [] v.type = "pair" -> EncodePair(v.content)
      [] v.type = "vector" -> EncodeVector(v.content)
      [] v.type = "string" -> EncodeString(v.content)
      [] v.type = "map" -> EncodeMap(v.content)
      [] v.type = "unordered_map" -> EncodeUnorderedMap(v.content, v.buckets)
      [] v.type = "shared_ptr" -> EncodePtr(v.content)
      [] v.type = "stream" -> EncodeStream(v.content)

\* operator>> for a type: the content at the front of tokens, and its length.
DecodePod(tokens) == [content |-> tokens[1], length |-> 1]
DecodePair(tokens) == [content |-> <<tokens[1], tokens[2]>>, length |-> 2]
DecodeVector(tokens) ==
    LET len == tokens[1]
    IN  [content |-> [i \in 1 .. len |-> DecodePod(SubSeq(tokens, i + 1, Len(tokens))).content],
         length |-> 1 + len]
DecodeString(tokens) == [content |-> SubSeq(tokens, 2, tokens[1] + 1), length |-> 1 + tokens[1]]
\* insert keeps the first of two elements with one key.
DecodeMap(tokens) ==
    LET len == tokens[1]
        elem(i) == DecodePair(SubSeq(tokens, 2 * i, Len(tokens))).content
        first(k) == Min({i \in 1 .. len : elem(i)[1] = k})
    IN  [content |-> [k \in {elem(i)[1] : i \in 1 .. len} |-> elem(first(k))[2]],
         length |-> 1 + 2 * len]
DecodeUnorderedMap(tokens) == DecodeMap(tokens)
DecodePtr(tokens) == DecodeVector(tokens)

Decode(type, tokens) ==
    CASE type = "pod" -> DecodePod(tokens)
      [] type = "pair" -> DecodePair(tokens)
      [] type = "vector" -> DecodeVector(tokens)
      [] type \in {"string", "stream"} -> DecodeString(tokens)
      [] type = "map" -> DecodeMap(tokens)
      [] type = "unordered_map" -> DecodeUnorderedMap(tokens)
      [] type = "shared_ptr" -> DecodePtr(tokens)

StreamInit ==
    /\ buffer = [s \in Streams |-> <<>>]
    /\ front = [s \in Streams |-> 0]
    /\ unread = [s \in Streams |-> <<>>]

-----------------------------------------------------------------------------
\* push_back_bytes
PushBack(s, tokens, values) ==
    /\ Len(buffer[s]) + Len(buffer[Other(s)]) + Len(tokens) <= MaxTokens
    /\ buffer' = [buffer EXCEPT ![s] = @ \o tokens]
    /\ unread' = [unread EXCEPT ![s] = @ \o values]
    /\ UNCHANGED front

Write(s) == \E v \in Values : PushBack(s, Encode(v), <<v>>)

AppendStream(s) == PushBack(s, Remained(Other(s)), unread[Other(s)])

WriteStream(s) ==
    LET v == Nested(Remained(Other(s)), unread[Other(s)])
    IN  PushBack(s, Encode(v), <<v>>)

\* pop_front_bytes: the bytes stay in the buffer.  A stream that is read into
\* another one replaces its content, from the front (resize).
ReadKeepsFront(s) ==  \* mutant of Read
    /\ unread[s] # <<>>
    /\ LET v   == Head(unread[s])
           got == Decode(v.type, Remained(s))
       IN  /\ front' = [front EXCEPT ![s] = @ + got.length]
           /\ IF v.type = "stream"
              THEN /\ buffer' = [buffer EXCEPT ![Other(s)] = got.content]
                   /\ unread' = [unread EXCEPT ![s] = Tail(@), ![Other(s)] = v.values]
              ELSE /\ unread' = [unread EXCEPT ![s] = Tail(@)]
                   /\ UNCHANGED buffer
Read(s) ==
    /\ unread[s] # <<>>
    /\ LET v   == Head(unread[s])
           got == Decode(v.type, Remained(s))
       IN  IF v.type = "stream"
           THEN /\ buffer' = [buffer EXCEPT ![Other(s)] = got.content]
                /\ front' = [front EXCEPT ![s] = @ + got.length, ![Other(s)] = 0]
                /\ unread' = [unread EXCEPT ![s] = Tail(@), ![Other(s)] = v.values]
           ELSE /\ front' = [front EXCEPT ![s] = @ + got.length]
                /\ unread' = [unread EXCEPT ![s] = Tail(@)]
                /\ UNCHANGED buffer

\* clear, and a move into the other stream: the moved-from one is left empty.
Clear(s) ==
    /\ buffer' = [buffer EXCEPT ![s] = <<>>]
    /\ front' = [front EXCEPT ![s] = 0]
    /\ unread' = [unread EXCEPT ![s] = <<>>]

Move(s) ==
    /\ buffer' = [buffer EXCEPT ![s] = <<>>, ![Other(s)] = buffer[s]]
    /\ front' = [front EXCEPT ![s] = 0, ![Other(s)] = front[s]]
    /\ unread' = [unread EXCEPT ![s] = <<>>, ![Other(s)] = unread[s]]

StreamNext ==
    \E s \in Streams :
        Write(s) \/ AppendStream(s) \/ WriteStream(s) \/ Read(s) \/ Clear(s) \/ Move(s)

StreamSpec == StreamInit /\ [][StreamNext]_streamVars

-----------------------------------------------------------------------------
\* What remains in a stream is what was written to it and not read yet, in that
\* order and of the same values, through appends, streams in streams and moves.
ReadsBack ==
    \A s \in Streams :
        /\ Remained(s) = FlattenSeq([i \in 1 .. Len(unread[s]) |-> Encode(unread[s][i])])
        /\ unread[s] # <<>> =>
               LET v == Head(unread[s])
               IN  Decode(v.type, Remained(s)) = [content |-> v.content, length |-> Len(Encode(v))]
=============================================================================
