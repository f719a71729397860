------------------------------- MODULE Buffer -------------------------------
(***************************************************************************)
(* Buffer (Buffer.h, Buffer.cpp): the bytes between a socket and the user. *)
(* One array, two indexes: read bytes below readerIndex_, unread ones up   *)
(* to writerIndex_, free cells above.  Space is made by sliding the unread *)
(* bytes down or by growing the array.                                     *)
(*                                                                         *)
(* A Buffer is a record; a member function is an operator from the buffer  *)
(* before the call to the buffer after it.  Indexes start at 0, as in C++. *)
(***************************************************************************)
EXTENDS Integers, Sequences

CONSTANTS
    Bytes,          \* the values of a byte, 0 among them
    kCheapPrepend,  \* 8 in the code
    kInitialSize,   \* 1024 in the code
    ExtraBufSize,   \* sizeof(extrabuf) in readFd, 65536 in the code
    MaxChunk,       \* bound: the longest append
    MaxReadable     \* bound: how many unread bytes pile up

ASSUME BytesAssumption == 0 \in Bytes
ASSUME SizesAssumption ==
    /\ kCheapPrepend \in Nat
    /\ kInitialSize \in Nat
    /\ ExtraBufSize \in Nat
    /\ MaxChunk \in Nat
    /\ MaxReadable \in Nat

VARIABLES buf,   \* the buffer
          call,  \* the last call, with its argument or what readv returned
          out    \* the bytes the last call handed to its caller or to the fd

vars == <<buf, call, out>>

BufferOf(cells, n, reader, writer) ==
    [buffer_ |-> cells, size |-> n, readerIndex_ |-> reader, writerIndex_ |-> writer]

newBuffer ==
    BufferOf([i \in 0..(kCheapPrepend + kInitialSize - 1) |-> 0],
             kCheapPrepend + kInitialSize, kCheapPrepend, kCheapPrepend)

(* A call as its caller sees it; op is what it means to a queue of bytes. *)
Call(op, data, len) == [op |-> op, data |-> data, len |-> len]

Init == buf = newBuffer /\ call = Call("none", <<>>, 0) /\ out = <<>>

readableBytes(b)    == b.writerIndex_ - b.readerIndex_
writableBytes(b)    == b.size - b.writerIndex_
prependableBytes(b) == b.readerIndex_

(* The first n bytes from peek() on. *)
peek(b, n) == [i \in 1..n |-> b.buffer_[b.readerIndex_ + i - 1]]

(* The unread bytes. *)
Content(b) == peek(b, readableBytes(b))

retrieveAll(b) ==
    BufferOf(b.buffer_, b.size, kCheapPrepend, kCheapPrepend)

retrieve(b, len) ==
    IF len < readableBytes(b)
    THEN BufferOf(b.buffer_, b.size, b.readerIndex_ + len, b.writerIndex_)
    ELSE retrieveAll(b)

(* std::copy of data to cell `at` and the ones after it. *)
copyTo(cells, at, data) ==
    [i \in DOMAIN cells |-> IF i \in at..(at + Len(data) - 1)
                            THEN data[i - at + 1]
                            ELSE cells[i]]

(* Mutant: one cell too few. *)
resize_short(b, n) ==
    BufferOf([i \in 0..(n - 2) |-> IF i < b.size THEN b.buffer_[i] ELSE 0], n,
             b.readerIndex_, b.writerIndex_)

(* vector::resize to more cells; new ones are 0. *)
resize(b, n) ==
    BufferOf([i \in 0..(n - 1) |-> IF i < b.size THEN b.buffer_[i] ELSE 0], n,
             b.readerIndex_, b.writerIndex_)

(* Slide the unread bytes down to kCheapPrepend. *)
slide(b) ==
    BufferOf(copyTo(b.buffer_, kCheapPrepend, Content(b)), b.size,
             kCheapPrepend, kCheapPrepend + readableBytes(b))

(* Mutant: never slide. *)
makeSpace_alwaysGrows(b, len) == resize(b, b.writerIndex_ + len)

makeSpace(b, len) ==
    IF writableBytes(b) + prependableBytes(b) < len + kCheapPrepend
    THEN resize(b, b.writerIndex_ + len)
    ELSE slide(b)

(* Mutant: room for one byte less is thought enough. *)
ensureWritableBytes_offByOne(b, len) ==
    IF writableBytes(b) + 1 < len THEN makeSpace(b, len) ELSE b

ensureWritableBytes(b, len) == IF writableBytes(b) < len THEN makeSpace(b, len) ELSE b

(* std::copy to beginWrite() of a buffer that has the room, and the index. *)
write(b, data) ==
    BufferOf(copyTo(b.buffer_, b.writerIndex_, data), b.size,
             b.readerIndex_, b.writerIndex_ + Len(data))

append(b, data) == write(ensureWritableBytes(b, Len(data)), data)

(* What one readv can take: the free cells, and extrabuf if they are fewer *)
(* than it has.                                                            *)
readCapacity(b) ==
    writableBytes(b) + (IF writableBytes(b) < ExtraBufSize THEN ExtraBufSize ELSE 0)

(* Mutant: writerIndex_ is not moved to the end before extrabuf is         *)
(* appended, which then overwrites what readv put into the free cells.     *)
readFd_indexForgotten(b, data) ==
    LET writable == writableBytes(b)
        full     == write(b, SubSeq(data, 1, writable))
    IN  IF Len(data) <= writable
        THEN write(b, data)
        ELSE append([full EXCEPT !.writerIndex_ = b.writerIndex_],
                    SubSeq(data, writable + 1, Len(data)))

(* readFd when readv returns data (nothing at the end of the stream): what *)
(* does not fit the free cells is in extrabuf and appended.                *)
readFd(b, data) ==
    LET writable == writableBytes(b)
        full     == write(b, SubSeq(data, 1, writable))
    IN  IF Len(data) <= writable
        THEN write(b, data)
        ELSE append(full, SubSeq(data, writable + 1, Len(data)))

-----------------------------------------------------------------------------
(* The calls of a user; an error of readv or write changes nothing. *)

CallAppend(data) ==
    /\ Len(data) <= MaxChunk
    /\ readableBytes(buf) + Len(data) <= MaxReadable
    /\ call' = Call("put", data, Len(data))
    /\ buf' = append(buf, data)
    /\ out' = <<>>

CallReadFd(data) ==
    /\ Len(data) <= readCapacity(buf)
    /\ readableBytes(buf) + Len(data) <= MaxReadable
    /\ call' = Call("put", data, Len(data))
    /\ buf' = readFd(buf, data)
    /\ out' = <<>>

(* retrieve(len); asking for too much empties the buffer. *)
CallRetrieve(len) ==
    /\ call' = Call("drop", <<>>, len)
    /\ buf' = retrieve(buf, len)
    /\ out' = <<>>

CallRetrieveAll ==
    /\ call' = Call("drop", <<>>, readableBytes(buf))
    /\ buf' = retrieveAll(buf)
    /\ out' = <<>>

(* retrieveAsString(len), or retrieveAllAsString with len all there is; or *)
(* writeFd(fd) when write takes len bytes and the caller retrieves them.   *)
(* That len is no more than there is, is up to the caller.                 *)
CallRetrieveAsString(len) ==
    /\ len <= readableBytes(buf)
    /\ call' = Call("take", <<>>, len)
    /\ out' = peek(buf, len)
    /\ buf' = retrieve(buf, len)

Data == UNION {[1..n -> Bytes] : n \in 0..MaxReadable}

Next ==
    \/ \E data \in Data : CallAppend(data) \/ CallReadFd(data)
    \/ \E len \in 0..(MaxReadable + 1) : CallRetrieve(len)
    \/ CallRetrieveAll
    \/ \E len \in 0..MaxReadable : CallRetrieveAsString(len)

Spec == Init /\ [][Next]_vars

-----------------------------------------------------------------------------
(* Properties *)

BufferType(b) ==
    b \in [buffer_      : [0..(b.size - 1) -> Bytes],
           size         : Nat,
           readerIndex_ : Nat,
           writerIndex_ : Nat]

(* Type invariant: buffer_ has size cells of bytes, the indexes are size_t.*)
TypeOK ==
    /\ BufferType(buf)
    /\ call \in [op : {"none", "put", "drop", "take"}, data : Seq(Bytes), len : Nat]
    /\ out \in Seq(Bytes)

(* The indexes stay in order and inside the array, so the size_t           *)
(* differences readableBytes and writableBytes never wrap around and no    *)
(* copy leaves the array.                                                  *)
Ordered(b) ==
    /\ kCheapPrepend <= b.readerIndex_
    /\ b.readerIndex_ <= b.writerIndex_
    /\ b.writerIndex_ <= b.size
IndexesOrdered == Ordered(buf)

(* Every byte that is given to append or that readv returns goes in behind *)
(* the unread ones, and what is handed out are the oldest of them: sliding,*)
(* growing and the detour through extrabuf lose, change and reorder none.  *)
Queue == INSTANCE ByteQueue WITH content <- Content(buf)
ImplementsByteQueue == Queue!Spec

(* The array grows with what is left unread, never with what has passed    *)
(* through: it is grown only when the free cells, the read ones included,  *)
(* do not suffice.                                                         *)
StorageLimit ==
    LET Largest(m, n) == IF m > n THEN m ELSE n
    IN  kCheapPrepend
        + Largest(kInitialSize, MaxReadable + Largest(MaxChunk, ExtraBufSize))
StorageBounded == buf.size <= StorageLimit
=============================================================================
