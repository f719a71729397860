---------------------------- MODULE BufferProofs ----------------------------
(***************************************************************************)
(* Proofs about Buffer for every size of the array, of extrabuf and of the *)
(* chunks: the indexes stay in order, the array stays small, and the       *)
(* buffer is a queue of bytes.                                             *)
(***************************************************************************)
EXTENDS Buffer, SequenceTheorems, TLAPS

Good(b) == BufferType(b) /\ Ordered(b)

(* A chunk handed to append or read by readFd is a sequence of bytes. *)
LEMMA ChunkType ==
    ASSUME NEW data \in Data
    PROVE  data \in Seq(Bytes) /\ Len(data) \in 0..MaxReadable
BY SizesAssumption DEF Data

(* What peek() points at: the first n unread bytes of a good buffer. *)
LEMMA PeekType ==
    ASSUME NEW b, Good(b), NEW n \in 0..readableBytes(b)
    PROVE  /\ peek(b, n) \in Seq(Bytes)
           /\ Len(peek(b, n)) = n
           /\ \A i \in 1..n : peek(b, n)[i] = b.buffer_[b.readerIndex_ + i - 1]
<1>1. n \in Nat /\ \A i \in 1..n : b.buffer_[b.readerIndex_ + i - 1] \in Bytes
  BY SizesAssumption DEF Good, BufferType, Ordered, readableBytes
<1>2. peek(b, n) \in [1..n -> Bytes]
  BY <1>1 DEF peek
<1> QED
  BY <1>1, <1>2 DEF peek

(* The unread bytes of a well-formed buffer are a sequence of bytes. *)
LEMMA ContentType ==
    ASSUME NEW b, Good(b)
    PROVE  /\ Content(b) \in Seq(Bytes)
           /\ Len(Content(b)) = readableBytes(b)
           /\ readableBytes(b) \in Nat
           /\ \A i \in 1..readableBytes(b) :
                 Content(b)[i] = b.buffer_[b.readerIndex_ + i - 1]
<1>1. readableBytes(b) \in 0..readableBytes(b) /\ readableBytes(b) \in Nat
  BY SizesAssumption DEF Good, BufferType, Ordered, readableBytes
<1> QED
  BY <1>1, PeekType DEF Content

(* Writing into free cells appends to the unread bytes. *)
LEMMA WriteAppends ==
    ASSUME NEW b, Good(b),
           NEW data \in Seq(Bytes), Len(data) <= writableBytes(b)
    PROVE  /\ Good(write(b, data))
           /\ write(b, data).size = b.size
           /\ write(b, data).readerIndex_ = b.readerIndex_
           /\ write(b, data).writerIndex_ = b.writerIndex_ + Len(data)
           /\ Content(write(b, data)) = Content(b) \o data
<1> DEFINE w == write(b, data)
<1>0. /\ b.size \in Nat /\ b.readerIndex_ \in Nat /\ b.writerIndex_ \in Nat
      /\ Len(data) \in Nat /\ data \in [1..Len(data) -> Bytes]
      /\ b.writerIndex_ + Len(data) <= b.size
      /\ b.buffer_ \in [0..(b.size - 1) -> Bytes]
      /\ kCheapPrepend <= b.readerIndex_ /\ b.readerIndex_ <= b.writerIndex_
      /\ kCheapPrepend \in Nat
  BY LenProperties, SizesAssumption DEF Good, BufferType, Ordered, writableBytes
<1>1. copyTo(b.buffer_, b.writerIndex_, data) \in [0..(b.size - 1) -> Bytes]
  BY <1>0, SMTT(30) DEF copyTo
<1>2. w = [buffer_ |-> copyTo(b.buffer_, b.writerIndex_, data),
           size |-> b.size,
           readerIndex_ |-> b.readerIndex_,
           writerIndex_ |-> b.writerIndex_ + Len(data)]
  BY DEF write, BufferOf
<1> HIDE DEF w
<1>3. Good(w)
  BY <1>0, <1>1, <1>2 DEF Good, BufferType, Ordered
<1>4. readableBytes(w) = readableBytes(b) + Len(data)
  BY <1>0, <1>2 DEF readableBytes
<1>5. Content(w) = Content(b) \o data
  <2>1. /\ Content(w) \in Seq(Bytes)
        /\ Len(Content(w)) = readableBytes(b) + Len(data)
        /\ Content(b) \o data \in Seq(Bytes)
        /\ Len(Content(b) \o data) = readableBytes(b) + Len(data)
        /\ readableBytes(b) \in Nat
    BY <1>3, <1>4, ContentType, ConcatProperties
  <2>2. ASSUME NEW i \in 1..(readableBytes(b) + Len(data))
        PROVE  Content(w)[i] = (Content(b) \o data)[i]
    <3>1. Content(w)[i] = w.buffer_[b.readerIndex_ + i - 1]
      BY <1>2, <1>3, <1>4, ContentType
    <3>2. (Content(b) \o data)[i] = IF i <= readableBytes(b) THEN Content(b)[i]
                                    ELSE data[i - readableBytes(b)]
      BY <2>1, ContentType, ConcatProperties
    <3>3. b.readerIndex_ + i - 1 \in 0..(b.size - 1)
      BY <1>0, SMTT(30) DEF readableBytes
    <3>4. CASE i <= readableBytes(b)
      <4>1. b.readerIndex_ + i - 1 < b.writerIndex_
        BY <1>0, <3>4 DEF readableBytes
      <4>2. w.buffer_[b.readerIndex_ + i - 1] = b.buffer_[b.readerIndex_ + i - 1]
        BY <1>0, <1>2, <3>3, <4>1 DEF copyTo
      <4> QED
        BY <2>1, <3>1, <3>2, <3>4, <4>2, ContentType
    <3>5. CASE i > readableBytes(b)
      <4> DEFINE k == b.readerIndex_ + i - 1
                 j == i - readableBytes(b)
      <4>1. j \in 1..Len(data) /\ k = b.writerIndex_ + j - 1 /\ k \in 0..(b.size - 1)
        BY <1>0, <3>3, <3>5, SMTT(30) DEF readableBytes
      <4> HIDE DEF k, j
      <4>2. copyTo(b.buffer_, b.writerIndex_, data)[k] = data[j]
        <5>1. /\ k \in DOMAIN b.buffer_
              /\ k \in b.writerIndex_..(b.writerIndex_ + Len(data) - 1)
              /\ k - b.writerIndex_ + 1 = j
          <6>1. /\ DOMAIN b.buffer_ = 0..(b.size - 1)
                /\ b.writerIndex_ \in Nat /\ Len(data) \in Nat
            BY <1>0
          <6> QED
            BY <4>1, <6>1
        <5> QED
          BY <5>1 DEF copyTo
      <4>3. w.buffer_[b.readerIndex_ + i - 1] = data[i - readableBytes(b)]
        BY <1>2, <4>2 DEF k, j
      <4> QED
        BY <2>1, <3>1, <3>2, <3>5, <4>3
    <3> QED
      BY <2>1, <3>4, <3>5
  <2> QED
    BY <2>1, <2>2, SeqEqual
<1> QED
  BY <1>2, <1>3, <1>5 DEF w

(* Sliding down keeps the unread bytes. *)
LEMMA SlideKeeps ==
    ASSUME NEW b, Good(b)
    PROVE  /\ Good(slide(b))
           /\ slide(b).size = b.size
           /\ slide(b).readerIndex_ = kCheapPrepend
           /\ slide(b).writerIndex_ = kCheapPrepend + readableBytes(b)
           /\ Content(slide(b)) = Content(b)
<1> DEFINE w == slide(b)
           d == Content(b)
<1>0. /\ b.size \in Nat /\ b.readerIndex_ \in Nat /\ b.writerIndex_ \in Nat
      /\ b.buffer_ \in [0..(b.size - 1) -> Bytes]
      /\ kCheapPrepend <= b.readerIndex_ /\ b.readerIndex_ <= b.writerIndex_
      /\ b.writerIndex_ <= b.size
      /\ kCheapPrepend \in Nat
  BY SizesAssumption DEF Good, BufferType, Ordered
<1>1. /\ d \in Seq(Bytes) /\ Len(d) = readableBytes(b) /\ Len(d) \in Nat
      /\ d \in [1..Len(d) -> Bytes]
  BY ContentType, LenProperties
<1> HIDE DEF d
<1>2. copyTo(b.buffer_, kCheapPrepend, d) \in [0..(b.size - 1) -> Bytes]
  BY <1>0, <1>1 DEF copyTo
<1>3. w = [buffer_ |-> copyTo(b.buffer_, kCheapPrepend, d),
           size |-> b.size,
           readerIndex_ |-> kCheapPrepend,
           writerIndex_ |-> kCheapPrepend + readableBytes(b)]
  BY DEF slide, BufferOf, d
<1> HIDE DEF w
<1>4. kCheapPrepend + Len(d) <= b.size
  BY <1>0, <1>1 DEF readableBytes
<1>5. Good(w)
  BY <1>0, <1>1, <1>2, <1>3, <1>4 DEF Good, BufferType, Ordered
<1>6. readableBytes(w) = Len(d)
  BY <1>0, <1>1, <1>3 DEF readableBytes
<1>7. Content(w) = d
  <2>1. Content(w) \in Seq(Bytes) /\ Len(Content(w)) = Len(d)
    BY <1>5, <1>6, ContentType
  <2>2. ASSUME NEW i \in 1..Len(d)
        PROVE  Content(w)[i] = d[i]
    <3> DEFINE k == kCheapPrepend + i - 1
    <3>1. Content(w)[i] = w.buffer_[k]
      BY <1>3, <1>5, <1>6, ContentType
    <3>2. /\ k \in DOMAIN b.buffer_
          /\ k \in kCheapPrepend..(kCheapPrepend + Len(d) - 1)
          /\ k - kCheapPrepend + 1 = i
      BY <1>0, <1>1, <1>4
    <3> HIDE DEF k
    <3>3. copyTo(b.buffer_, kCheapPrepend, d)[k] = d[i]
      BY <3>2 DEF copyTo
    <3> QED
      BY <1>3, <3>1, <3>3
  <2> QED
    BY <1>1, <2>1, <2>2, SeqEqual
<1> QED
  BY <1>3, <1>5, <1>7 DEF w, d

(* So does growing the array. *)
LEMMA ResizeKeeps ==
    ASSUME NEW b, Good(b), NEW n \in Nat, b.size <= n
    PROVE  /\ Good(resize(b, n))
           /\ resize(b, n).size = n
           /\ resize(b, n).readerIndex_ = b.readerIndex_
           /\ resize(b, n).writerIndex_ = b.writerIndex_
           /\ Content(resize(b, n)) = Content(b)
<1> DEFINE w == resize(b, n)
           cells == [i \in 0..(n - 1) |-> IF i < b.size THEN b.buffer_[i] ELSE 0]
<1>0. /\ b.size \in Nat /\ b.readerIndex_ \in Nat /\ b.writerIndex_ \in Nat
      /\ b.buffer_ \in [0..(b.size - 1) -> Bytes]
      /\ kCheapPrepend <= b.readerIndex_ /\ b.readerIndex_ <= b.writerIndex_
      /\ b.writerIndex_ <= b.size
      /\ kCheapPrepend \in Nat
  BY SizesAssumption DEF Good, BufferType, Ordered
<1>1. cells \in [0..(n - 1) -> Bytes]
  BY <1>0, BytesAssumption
<1>2. \A k \in 0..(b.size - 1) : cells[k] = b.buffer_[k]
  BY <1>0
<1>3. w = [buffer_ |-> cells, size |-> n,
           readerIndex_ |-> b.readerIndex_, writerIndex_ |-> b.writerIndex_]
  BY DEF resize, BufferOf
<1> HIDE DEF w, cells
<1>4. Good(w)
  BY <1>0, <1>1, <1>3 DEF Good, BufferType, Ordered
<1>5. readableBytes(w) = readableBytes(b)
  BY <1>3 DEF readableBytes
<1>6. Content(w) = Content(b)
  <2>1. /\ Content(w) \in Seq(Bytes) /\ Content(b) \in Seq(Bytes)
        /\ Len(Content(w)) = readableBytes(b) /\ Len(Content(b)) = readableBytes(b)
    BY <1>4, <1>5, ContentType
  <2>2. ASSUME NEW i \in 1..readableBytes(b)
        PROVE  Content(w)[i] = Content(b)[i]
    <3>1. b.readerIndex_ + i - 1 \in 0..(b.size - 1)
      BY <1>0 DEF readableBytes
    <3>2. Content(w)[i] = w.buffer_[b.readerIndex_ + i - 1]
      BY <1>3, <1>4, <1>5, ContentType
    <3>3. Content(b)[i] = b.buffer_[b.readerIndex_ + i - 1]
      BY ContentType
    <3> QED
      BY <1>2, <1>3, <3>1, <3>2, <3>3
  <2> QED
    BY <2>1, <2>2, SeqEqual
<1> QED
  BY <1>3, <1>4, <1>6 DEF w

(* After ensureWritableBytes there is room, the unread bytes are what they *)
(* were, and the array has grown only if it had to.                        *)
LEMMA EnsureMakesRoom ==
    ASSUME NEW b, Good(b), NEW len \in Nat
    PROVE  /\ Good(ensureWritableBytes(b, len))
           /\ len <= writableBytes(ensureWritableBytes(b, len))
           /\ Content(ensureWritableBytes(b, len)) = Content(b)
           /\ \/ ensureWritableBytes(b, len).size = b.size
              \/ ensureWritableBytes(b, len).size
                    <= kCheapPrepend + len + readableBytes(b) + len
<1>0. /\ b.size \in Nat /\ b.readerIndex_ \in Nat /\ b.writerIndex_ \in Nat
      /\ b.writerIndex_ <= b.size
      /\ b.readerIndex_ <= b.writerIndex_
      /\ kCheapPrepend \in Nat
  BY SizesAssumption DEF Good, BufferType, Ordered
<1>1. CASE len <= writableBytes(b)
  BY <1>0, <1>1 DEF ensureWritableBytes, writableBytes
<1>2. CASE /\ writableBytes(b) < len
           /\ writableBytes(b) + prependableBytes(b) < len + kCheapPrepend
  <2>1. ensureWritableBytes(b, len) = resize(b, b.writerIndex_ + len)
    BY <1>2 DEF ensureWritableBytes, makeSpace
  <2>2. b.writerIndex_ + len \in Nat /\ b.size <= b.writerIndex_ + len
    BY <1>0, <1>2 DEF writableBytes
  <2>3. b.writerIndex_ + len <= kCheapPrepend + len + readableBytes(b) + len
    BY <1>0, <1>2 DEF writableBytes, prependableBytes, readableBytes
  <2>4. len <= writableBytes(resize(b, b.writerIndex_ + len))
    BY <1>0, <2>2, ResizeKeeps DEF writableBytes
  <2> QED
    BY <2>1, <2>2, <2>3, <2>4, ResizeKeeps
<1>3. CASE /\ writableBytes(b) < len
           /\ ~(writableBytes(b) + prependableBytes(b) < len + kCheapPrepend)
  <2>1. ensureWritableBytes(b, len) = slide(b)
    BY <1>3 DEF ensureWritableBytes, makeSpace
  <2>2. len <= writableBytes(slide(b))
    BY <1>0, <1>3, SlideKeeps DEF writableBytes, prependableBytes, readableBytes
  <2> QED
    BY <2>1, <2>2, SlideKeeps
<1> QED
  BY <1>0, <1>1, <1>2, <1>3 DEF writableBytes

(* append adds its data behind the unread bytes. *)
LEMMA AppendAppends ==
    ASSUME NEW b, Good(b), NEW data \in Seq(Bytes)
    PROVE  /\ Good(append(b, data))
           /\ Content(append(b, data)) = Content(b) \o data
           /\ \/ append(b, data).size = b.size
              \/ append(b, data).size
                    <= kCheapPrepend + Len(data) + readableBytes(b) + Len(data)
<1> DEFINE r == ensureWritableBytes(b, Len(data))
<1>1. Len(data) \in Nat
  BY LenProperties
<1>2. /\ Good(r) /\ Len(data) <= writableBytes(r) /\ Content(r) = Content(b)
      /\ \/ r.size = b.size
         \/ r.size <= kCheapPrepend + Len(data) + readableBytes(b) + Len(data)
  BY <1>1, EnsureMakesRoom
<1>3. append(b, data) = write(r, data)
  BY DEF append
<1> HIDE DEF r
<1> QED
  BY <1>2, <1>3, WriteAppends

(* readFd appends what readv returned, the part in extrabuf included. *)
LEMMA ReadFdAppends ==
    ASSUME NEW b, Good(b),
           NEW data \in Seq(Bytes), Len(data) <= readCapacity(b)
    PROVE  /\ Good(readFd(b, data))
           /\ Content(readFd(b, data)) = Content(b) \o data
           /\ \/ readFd(b, data).size = b.size
              \/ readFd(b, data).size
                    <= kCheapPrepend + ExtraBufSize + readableBytes(b) + Len(data)
<1> DEFINE n == writableBytes(b)
           first == SubSeq(data, 1, n)
           rest == SubSeq(data, n + 1, Len(data))
           full == write(b, first)
<1>0. /\ b.size \in Nat /\ b.readerIndex_ \in Nat /\ b.writerIndex_ \in Nat
      /\ b.readerIndex_ <= b.writerIndex_
      /\ n \in Nat /\ Len(data) \in Nat /\ data \in [1..Len(data) -> Bytes]
      /\ kCheapPrepend \in Nat /\ ExtraBufSize \in Nat
  BY SizesAssumption, LenProperties DEF Good, BufferType, Ordered, writableBytes
<1>1. CASE Len(data) <= n
  BY <1>0, <1>1, WriteAppends DEF readFd
<1>2. CASE Len(data) > n
  <2>1. readFd(b, data) = append(full, rest)
    BY <1>0, <1>2 DEF readFd
  <2>2. Len(data) - n <= ExtraBufSize
    BY <1>0, <1>2 DEF readCapacity
  <2> HIDE DEF n
  <2>3. first \in Seq(Bytes) /\ Len(first) = n
    <3>1. \A i \in 1..n : data[i] \in Bytes
      BY <1>0, <1>2
    <3> QED
      BY <1>0, <3>1, SubSeqProperties
  <2>4. rest \in Seq(Bytes) /\ Len(rest) = Len(data) - n
    <3>1. n + 1 \in Int /\ \A i \in (n + 1)..Len(data) : data[i] \in Bytes
      BY <1>0, <1>2
    <3> QED
      <4>1. /\ rest \in Seq(Bytes)
            /\ Len(rest) = IF n + 1 <= Len(data) THEN Len(data) - (n + 1) + 1 ELSE 0
        BY <1>0, <3>1, SubSeqProperties
      <4>2. /\ n \in Nat /\ Len(data) \in Nat
            /\ n + 1 <= Len(data) /\ Len(data) - (n + 1) + 1 = Len(data) - n
        BY <1>0, <1>2
      <4>3. Len(rest) = Len(data) - n
        BY <4>1, <4>2, Zenon
      <4> QED
        BY <4>1, <4>3
  <2>5. first \o rest = data
    <3>1. 1 \in 1..(Len(data) + 1) /\ n \in (1 - 1)..Len(data) /\ Len(data) \in n..Len(data)
      BY <1>0, <1>2
    <3>2. first \o rest = SubSeq(data, 1, Len(data))
      BY <3>1, ConcatAdjacentSubSeq
    <3> QED
      BY <3>2, SubSeqFull
  <2> HIDE DEF first, rest
  <2>6. /\ Good(full) /\ full.size = b.size
        /\ full.readerIndex_ = b.readerIndex_
        /\ full.writerIndex_ = b.writerIndex_ + n
        /\ Content(full) = Content(b) \o first
    BY <1>0, <2>3, WriteAppends, SMTT(30) DEF n
  <2>7. readableBytes(full) = readableBytes(b) + n
    BY <1>0, <2>6 DEF readableBytes
  <2> HIDE DEF full
  <2>8. /\ Good(append(full, rest))
        /\ Content(append(full, rest)) = Content(full) \o rest
        /\ \/ append(full, rest).size = full.size
           \/ append(full, rest).size
                 <= kCheapPrepend + Len(rest) + readableBytes(full) + Len(rest)
    BY <2>4, <2>6, AppendAppends
  <2>9. Content(append(full, rest)) = Content(b) \o data
    <3>1. Content(b) \in Seq(Bytes) /\ first \in Seq(Bytes) /\ rest \in Seq(Bytes)
      BY <2>3, <2>4, ContentType
    <3>2. (Content(b) \o first) \o rest = Content(b) \o (first \o rest)
      BY <3>1, ConcatAssociative, SMTT(30)
    <3> QED
      BY <2>5, <2>6, <2>8, <3>2
  <2>10. \/ append(full, rest).size = b.size
         \/ append(full, rest).size
               <= kCheapPrepend + ExtraBufSize + readableBytes(b) + Len(data)
    <3>1. append(full, rest).size \in Nat /\ readableBytes(b) \in Nat
      BY <2>8, ContentType DEF Good, BufferType
    <3> QED
      BY <1>0, <2>2, <2>4, <2>6, <2>7, <2>8, <3>1, SMTT(30)
  <2> QED
    BY <2>1, <2>8, <2>9, <2>10
<1> QED
  BY <1>0, <1>1, <1>2

(* retrieve drops bytes at the front, all of them if asked for too many. *)
LEMMA RetrieveDrops ==
    ASSUME NEW b, Good(b), NEW len \in Nat
    PROVE  /\ Good(retrieve(b, len))
           /\ retrieve(b, len).size = b.size
           /\ readableBytes(retrieve(b, len)) <= readableBytes(b)
           /\ \E n \in 0..readableBytes(b) :
                 /\ len <= readableBytes(b) => n = len
                 /\ Content(retrieve(b, len))
                      = [i \in 1..(readableBytes(b) - n) |-> Content(b)[n + i]]
<1>0. /\ b.size \in Nat /\ b.readerIndex_ \in Nat /\ b.writerIndex_ \in Nat
      /\ b.buffer_ \in [0..(b.size - 1) -> Bytes]
      /\ kCheapPrepend <= b.readerIndex_ /\ b.readerIndex_ <= b.writerIndex_
      /\ b.writerIndex_ <= b.size
      /\ kCheapPrepend \in Nat
      /\ readableBytes(b) \in Nat
      /\ readableBytes(b) = b.writerIndex_ - b.readerIndex_
  BY SizesAssumption DEF Good, BufferType, Ordered, readableBytes
<1>1. CASE len < readableBytes(b)
  <2>1. retrieve(b, len) = [buffer_ |-> b.buffer_, size |-> b.size,
                            readerIndex_ |-> b.readerIndex_ + len,
                            writerIndex_ |-> b.writerIndex_]
    BY <1>1 DEF retrieve, BufferOf
  <2>2. Good(retrieve(b, len))
    BY <1>0, <1>1, <2>1 DEF Good, BufferType, Ordered
  <2>3. readableBytes(retrieve(b, len)) = readableBytes(b) - len
    BY <1>0, <2>1 DEF readableBytes
  <2>4. ASSUME NEW i \in 1..(readableBytes(b) - len)
        PROVE  b.buffer_[b.readerIndex_ + len + i - 1] = Content(b)[len + i]
    <3>1. len + i \in 1..readableBytes(b)
          /\ b.readerIndex_ + (len + i) - 1 = b.readerIndex_ + len + i - 1
      BY <1>0, <1>1
    <3> QED
      BY <3>1, ContentType
  <2>5. Content(retrieve(b, len))
          = [i \in 1..(readableBytes(b) - len) |-> Content(b)[len + i]]
    <3>1. Content(retrieve(b, len))
            = [i \in 1..(readableBytes(b) - len) |-> b.buffer_[b.readerIndex_ + len + i - 1]]
      BY <2>1, <2>3 DEF Content, peek
    <3> QED
      BY <2>4, <3>1
  <2>6. len \in 0..readableBytes(b)
    BY <1>0, <1>1
  <2>7. retrieve(b, len).size = b.size
    BY <2>1
  <2> QED
    BY <1>0, <2>2, <2>3, <2>5, <2>6, <2>7
<1>2. CASE ~(len < readableBytes(b))
  <2>1. retrieve(b, len) = [buffer_ |-> b.buffer_, size |-> b.size,
                            readerIndex_ |-> kCheapPrepend,
                            writerIndex_ |-> kCheapPrepend]
    BY <1>2 DEF retrieve, retrieveAll, BufferOf
  <2>2. Good(retrieve(b, len))
    BY <1>0, <2>1 DEF Good, BufferType, Ordered
  <2>3. readableBytes(retrieve(b, len)) = 0 /\ readableBytes(b) - readableBytes(b) = 0
    BY <1>0, <2>1 DEF readableBytes
  <2>4. Content(retrieve(b, len))
          = [i \in 1..(readableBytes(b) - readableBytes(b))
               |-> Content(b)[readableBytes(b) + i]]
    <3>1. ~ \E i \in 1..0 : TRUE
      OBVIOUS
    <3> QED
      BY <2>3, <3>1 DEF Content, peek
  <2>5. /\ readableBytes(b) \in 0..readableBytes(b)
        /\ len <= readableBytes(b) => readableBytes(b) = len
    BY <1>0, <1>2
  <2> QED
    BY <1>0, <2>1, <2>2, <2>3, <2>4, <2>5
<1> QED
  BY <1>1, <1>2

(* retrieveAll leaves no unread byte. *)
LEMMA RetrieveAllEmpties ==
    ASSUME NEW b
    PROVE  readableBytes(retrieveAll(b)) = 0 /\ Content(retrieveAll(b)) = <<>>
<1>1. readableBytes(retrieveAll(b)) = 0
  BY SizesAssumption DEF retrieveAll, BufferOf, readableBytes
<1>2. ~ \E i \in 1..0 : TRUE
  OBVIOUS
<1> QED
  BY <1>1, <1>2 DEF Content, peek

-----------------------------------------------------------------------------
(* The inductive invariant. *)
Calls == [op : {"none", "put", "drop", "take"}, data : Seq(Bytes), len : Nat]

(* The guards of append and readFd bound what piles up. *)
Piled == readableBytes(buf) <= MaxReadable

BufferInv ==
    Good(buf) /\ call \in Calls /\ out \in Seq(Bytes) /\ StorageBounded /\ Piled

(* What StorageLimit is made of: it is above the initial size, and above   *)
(* what an append or a readFd can need.                                    *)
LEMMA LimitProperties ==
    /\ StorageLimit \in Nat
    /\ kCheapPrepend + kInitialSize <= StorageLimit
    /\ kCheapPrepend + MaxReadable + MaxChunk <= StorageLimit
    /\ kCheapPrepend + MaxReadable + ExtraBufSize <= StorageLimit
BY SizesAssumption DEF StorageLimit

(* BufferInv is an invariant: every call keeps the type, the order of the  *)
(* indexes and the limit on the array.                                     *)
LEMMA BufferInductive == Spec => []BufferInv
<1>1. Init => BufferInv
  <2> SUFFICES ASSUME Init PROVE BufferInv
    OBVIOUS
  <2>1. buf = [buffer_ |-> [i \in 0..(kCheapPrepend + kInitialSize - 1) |-> 0],
               size |-> kCheapPrepend + kInitialSize,
               readerIndex_ |-> kCheapPrepend, writerIndex_ |-> kCheapPrepend]
    BY DEF Init, newBuffer, BufferOf
  <2>2. Good(buf)
    BY <2>1, SizesAssumption, BytesAssumption DEF Good, BufferType, Ordered
  <2>3. StorageBounded
    BY <2>1, LimitProperties DEF StorageBounded
  <2>4. out \in Seq(Bytes) /\ call \in Calls
    BY EmptySeq DEF Init, Call, Calls
  <2>5. Piled
    BY <2>1, SizesAssumption DEF Piled, readableBytes
  <2> QED
    BY <2>2, <2>3, <2>4, <2>5 DEF BufferInv
<1>2. BufferInv /\ [Next]_vars => BufferInv'
  <2> SUFFICES ASSUME BufferInv, [Next]_vars PROVE BufferInv'
    OBVIOUS
  <2>0. /\ Good(buf) /\ buf.size \in Nat /\ buf.size <= StorageLimit
        /\ readableBytes(buf) \in Nat /\ readableBytes(buf) <= MaxReadable
        /\ <<>> \in Seq(Bytes)
        /\ \A op \in {"put", "drop", "take"}, data \in Seq(Bytes), len \in Nat :
              Call(op, data, len) \in Calls
    BY ContentType, EmptySeq DEF BufferInv, StorageBounded, Piled, Good, BufferType, Call, Calls
  <2>1. ASSUME NEW data \in Data, CallAppend(data)
        PROVE  BufferInv'
    <3>1. /\ data \in Seq(Bytes) /\ Len(data) \in Nat
          /\ Len(data) <= MaxChunk /\ readableBytes(buf) + Len(data) <= MaxReadable
      BY <2>1, ChunkType DEF CallAppend
    <3>2. Good(buf') /\ buf'.size \in Nat
          /\ \/ buf'.size = buf.size
             \/ buf'.size <= kCheapPrepend + Len(data) + readableBytes(buf) + Len(data)
      BY <2>0, <2>1, <3>1, AppendAppends DEF CallAppend, Good, BufferType
    <3>3. StorageBounded'
      BY <2>0, <3>1, <3>2, LimitProperties, SizesAssumption DEF StorageBounded
    <3>4. Piled'
      <4>1. Content(buf') = Content(buf) \o data
        BY <2>0, <2>1, <3>1, AppendAppends DEF CallAppend
      <4>2. Len(Content(buf')) = readableBytes(buf) + Len(data)
        BY <2>0, <3>1, <4>1, ContentType, ConcatProperties
      <4> QED
        BY <3>1, <3>2, <4>2, ContentType DEF Piled
    <3> QED
      BY <2>0, <2>1, <3>1, <3>2, <3>3, <3>4 DEF CallAppend, BufferInv
  <2>2. ASSUME NEW data \in Data, CallReadFd(data)
        PROVE  BufferInv'
    <3>1. /\ data \in Seq(Bytes) /\ Len(data) \in Nat
          /\ Len(data) <= readCapacity(buf) /\ readableBytes(buf) + Len(data) <= MaxReadable
      BY <2>2, ChunkType DEF CallReadFd
    <3>2. Good(buf') /\ buf'.size \in Nat
          /\ \/ buf'.size = buf.size
             \/ buf'.size <= kCheapPrepend + ExtraBufSize + readableBytes(buf) + Len(data)
      BY <2>0, <2>2, <3>1, ReadFdAppends DEF CallReadFd, Good, BufferType
    <3>3. StorageBounded'
      BY <2>0, <3>1, <3>2, LimitProperties, SizesAssumption DEF StorageBounded
    <3>4. Piled'
      <4>1. Content(buf') = Content(buf) \o data
        BY <2>0, <2>2, <3>1, ReadFdAppends DEF CallReadFd
      <4>2. Len(Content(buf')) = readableBytes(buf) + Len(data)
        BY <2>0, <3>1, <4>1, ContentType, ConcatProperties
      <4> QED
        BY <3>1, <3>2, <4>2, ContentType DEF Piled
    <3> QED
      BY <2>0, <2>2, <3>1, <3>2, <3>3, <3>4 DEF CallReadFd, BufferInv
  <2>3. ASSUME NEW len \in 0..(MaxReadable + 1), CallRetrieve(len)
        PROVE  BufferInv'
    <3>1. len \in Nat
      BY SizesAssumption
    <3>2. /\ Good(buf') /\ buf'.size = buf.size
          /\ readableBytes(buf') <= readableBytes(buf) /\ readableBytes(buf') \in Nat
      BY <2>0, <2>3, <3>1, RetrieveDrops, ContentType DEF CallRetrieve
    <3>3. StorageBounded' /\ Piled'
      BY <2>0, <3>2, SizesAssumption DEF StorageBounded, Piled
    <3>4. call' \in Calls /\ out' \in Seq(Bytes)
      BY <2>0, <2>3, <3>1 DEF CallRetrieve
    <3> QED
      BY <3>2, <3>3, <3>4 DEF BufferInv
  <2>4. ASSUME CallRetrieveAll
        PROVE  BufferInv'
    <3>1. buf' = [buffer_ |-> buf.buffer_, size |-> buf.size,
                  readerIndex_ |-> kCheapPrepend, writerIndex_ |-> kCheapPrepend]
      BY <2>4 DEF CallRetrieveAll, retrieveAll, BufferOf
    <3>2. Good(buf')
      BY <2>0, <3>1, SizesAssumption DEF Good, BufferType, Ordered
    <3>3. StorageBounded'
      BY <2>0, <3>1 DEF StorageBounded
    <3>4. Piled'
      BY <2>4, RetrieveAllEmpties, SizesAssumption DEF CallRetrieveAll, Piled
    <3>5. call' \in Calls /\ out' \in Seq(Bytes)
      BY <2>0, <2>4 DEF CallRetrieveAll
    <3> QED
      BY <3>2, <3>3, <3>4, <3>5 DEF BufferInv
  <2>5. ASSUME NEW len \in 0..MaxReadable, CallRetrieveAsString(len)
        PROVE  BufferInv'
    <3>1. len \in Nat /\ len \in 0..readableBytes(buf)
      BY <2>0, <2>5, SizesAssumption DEF CallRetrieveAsString
    <3>2. out' \in Seq(Bytes)
      BY <2>0, <2>5, <3>1, PeekType DEF CallRetrieveAsString
    <3>3. /\ Good(buf') /\ buf'.size = buf.size
          /\ readableBytes(buf') <= readableBytes(buf) /\ readableBytes(buf') \in Nat
      BY <2>0, <2>5, <3>1, RetrieveDrops, ContentType DEF CallRetrieveAsString
    <3>4. StorageBounded' /\ Piled'
      BY <2>0, <3>3, SizesAssumption DEF StorageBounded, Piled
    <3>5. call' \in Calls
      BY <2>0, <2>5, <3>1 DEF CallRetrieveAsString
    <3> QED
      BY <3>2, <3>3, <3>4, <3>5 DEF BufferInv
  <2>6. CASE UNCHANGED vars
    BY <2>6 DEF vars, BufferInv, StorageBounded, Piled
  <2> QED
    BY <2>1, <2>2, <2>3, <2>4, <2>5, <2>6 DEF Next
<1> QED
  BY <1>1, <1>2, PTL DEF Spec

(* The array, its size and the indexes keep their types. *)
THEOREM TypeCorrect == Spec => []TypeOK
<1>1. BufferInv => TypeOK
  BY DEF BufferInv, Good, TypeOK, Calls
<1> QED
  BY <1>1, BufferInductive, PTL

(* kCheapPrepend <= readerIndex_ <= writerIndex_ <= buffer_.size() always. *)
THEOREM IndexesCorrect == Spec => []IndexesOrdered
<1>1. BufferInv => IndexesOrdered
  BY DEF BufferInv, Good, IndexesOrdered
<1> QED
  BY <1>1, BufferInductive, PTL

(* The array never grows past the unread bytes plus one chunk. *)
THEOREM StorageCorrect == Spec => []StorageBounded
<1>1. BufferInv => StorageBounded
  BY DEF BufferInv
<1> QED
  BY <1>1, BufferInductive, PTL

-----------------------------------------------------------------------------
(* Buffer is a queue of bytes: append and readFd put in what their caller  *)
(* or readv gave them, all of it and nothing else, behind the unread bytes,*)
(* and retrieve... drops or hands out as many as it was asked for, from    *)
(* the front, whatever was slid, grown or read through extrabuf.           *)
THEOREM RefinesByteQueue == Spec => ImplementsByteQueue
<1>1. Init => Queue!Init
  <2> SUFFICES ASSUME Init PROVE Queue!Init
    OBVIOUS
  <2>1. /\ buf.readerIndex_ = kCheapPrepend /\ buf.writerIndex_ = kCheapPrepend
    BY DEF Init, newBuffer, BufferOf
  <2>2. readableBytes(buf) = 0
    BY <2>1, SizesAssumption DEF readableBytes
  <2>3. Content(buf) = <<>>
    <3>1. ~ \E i \in 1..0 : TRUE
      OBVIOUS
    <3> QED
      BY <2>2, <3>1 DEF Content, peek
  <2> QED
    BY <2>3 DEF Init, Queue!Init, Call, Queue!NoCall, Queue!Call
<1>2. BufferInv /\ [Next]_vars => [Queue!Next]_(Queue!vars)
  <2> SUFFICES ASSUME BufferInv, [Next]_vars PROVE [Queue!Next]_(Queue!vars)
    OBVIOUS
  <2>0. /\ Good(buf) /\ readableBytes(buf) \in Nat
        /\ Len(Content(buf)) = readableBytes(buf)
        /\ Data = Queue!Data
        /\ \A op, data, len : Call(op, data, len) = Queue!Call(op, data, len)
    BY ContentType DEF BufferInv, Data, Queue!Data, Call, Queue!Call
  <2>1. ASSUME NEW data \in Data, CallAppend(data)
        PROVE  Queue!Next
    <3>1. /\ Content(buf') = Content(buf) \o data /\ out' = <<>>
          /\ call' = Call("put", data, Len(data))
      BY <2>0, <2>1, ChunkType, AppendAppends DEF CallAppend
    <3> QED
      BY <2>0, <3>1 DEF Queue!Next, Queue!Put
  <2>2. ASSUME NEW data \in Data, CallReadFd(data)
        PROVE  Queue!Next
    <3>1. /\ Content(buf') = Content(buf) \o data /\ out' = <<>>
          /\ call' = Call("put", data, Len(data))
      BY <2>0, <2>2, ChunkType, ReadFdAppends DEF CallReadFd
    <3> QED
      BY <2>0, <3>1 DEF Queue!Next, Queue!Put
  <2>3. ASSUME NEW len \in 0..(MaxReadable + 1), buf' = retrieve(buf, len), out' = <<>>,
               call' = Call("drop", <<>>, len)
        PROVE  Queue!Next
    <3>0. len \in Nat
      BY SizesAssumption
    <3>1. CASE len < readableBytes(buf)
      <4>1. Content(buf') = Queue!Rest(len)
        <5>1. len <= readableBytes(buf)
          BY <2>0, <3>0, <3>1
        <5>2. Content(buf') = [i \in 1..(readableBytes(buf) - len) |-> Content(buf)[len + i]]
          BY <2>0, <2>3, <3>0, <5>1, RetrieveDrops
        <5> QED
          BY <2>0, <5>2 DEF Queue!Rest
      <4> QED
        BY <2>0, <2>3, <3>1, <4>1 DEF Queue!Next, Queue!Drop
    <3>2. CASE ~(len < readableBytes(buf))
      <4>1. Content(buf') = <<>>
        BY <2>0, <2>3, <3>2, RetrieveAllEmpties DEF retrieve
      <4> QED
        BY <2>0, <2>3, <3>2, <4>1 DEF Queue!Next, Queue!Drop
    <3> QED
      BY <3>1, <3>2
  <2>4. ASSUME NEW len \in 0..(MaxReadable + 1), CallRetrieve(len)
        PROVE  Queue!Next
    BY <2>3, <2>4 DEF CallRetrieve
  <2>5. ASSUME CallRetrieveAll
        PROVE  Queue!Next
    <3>1. retrieve(buf, readableBytes(buf)) = retrieveAll(buf)
      BY <2>0 DEF retrieve
    <3>2. readableBytes(buf) \in 0..(MaxReadable + 1)
      BY <2>0, SizesAssumption DEF BufferInv, Piled
    <3> QED
      BY <2>0, <2>3, <2>5, <3>1, <3>2 DEF CallRetrieveAll
  <2>6. ASSUME NEW len \in 0..MaxReadable, CallRetrieveAsString(len)
        PROVE  Queue!Next
    <3>1. len \in Nat /\ len \in 0..readableBytes(buf)
      BY <2>0, <2>6, SizesAssumption DEF CallRetrieveAsString
    <3>2. Content(buf') = [i \in 1..(readableBytes(buf) - len) |-> Content(buf)[len + i]]
      BY <2>0, <2>6, <3>1, RetrieveDrops DEF CallRetrieveAsString
    <3>3. out' = [i \in 1..len |-> Content(buf)[i]]
      <4>1. out' = [i \in 1..len |-> buf.buffer_[buf.readerIndex_ + i - 1]]
        BY <2>6 DEF CallRetrieveAsString, peek
      <4>2. \A i \in 1..len : Content(buf)[i] = buf.buffer_[buf.readerIndex_ + i - 1]
        BY <2>0, <3>1, ContentType
      <4> QED
        BY <4>1, <4>2
    <3> QED
      BY <2>0, <2>6, <3>1, <3>2, <3>3
         DEF CallRetrieveAsString, Queue!Next, Queue!Take, Queue!Rest
  <2>7. CASE UNCHANGED vars
    BY <2>7 DEF vars, Queue!vars
  <2> QED
    BY <2>1, <2>2, <2>4, <2>5, <2>6, <2>7 DEF Next
<1> QED
  BY <1>1, <1>2, BufferInductive, PTL DEF Spec, ImplementsByteQueue, Queue!Spec
=============================================================================
