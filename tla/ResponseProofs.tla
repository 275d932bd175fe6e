---------------------------- MODULE ResponseProofs ----------------------------
(***************************************************************************)
(* Theorems about Response, for handlers that make any number of calls,    *)
(* messages of any length and files of any size.                           *)
(***************************************************************************)
EXTENDS Response, SequenceTheorems, TLAPS

(* Nothing is serialized yet.                                              *)
Blank ==
  /\ data = <<>>
  /\ ~hasEnded
  /\ ~chunked
  /\ ~region.valid

(* `data' begins with a header; the body that follows has none, and is as  *)
(* long as that header says.                                               *)
HeaderFirst == data # <<>> /\ IsHeader(data[1])
NoOtherHeader == \A i \in 2..Len(data) : ~IsHeader(data[i])
TellsLength ==
  IF data[1].chunked
  THEN data[1].length = Unset /\ data[Len(data)].kind = "end" /\ ~region.valid
  ELSE data[1].length = {BodyInMemory + BodyInFile}

Whole == hasEnded /\ HeaderFirst /\ NoOtherHeader /\ TellsLength

(* What processRequest puts behind whatever there is.                      *)
EndSize == 1 + MaxMessage
RoomEnough ==
  Len(data) <= 2 * calls + (IF hasEnded THEN EndSize ELSE 0)

(* What takeFileRegion gives away ends within the file.                    *)
Slices ==
  {NoRegion} \cup {r \in FileRegions : r.valid /\ r.offset + r.remaining <= MaxFile}

IInv ==
  /\ TypeOK
  /\ region \in Slices
  /\ IF zipFailed THEN HeaderFirst ELSE Blank \/ Whole
  /\ stage = "taken" => hasEnded
  /\ RoomEnough

-----------------------------------------------------------------------------
(* The operators                                                           *)

LEMMA HeaderType ==
  ASSUME NEW code \in STATUS_CODE, NEW length \in Lengths, NEW c \in BOOLEAN
  PROVE  /\ Header(code, length, c) \in Bytes
         /\ IsHeader(Header(code, length, c))
         /\ Header(code, length, c).length = length
         /\ Header(code, length, c).chunked = c
  BY DEF Header, Bytes, Headers, IsHeader

LEMMA BodyType ==
  ASSUME NEW length \in Nat
  PROVE  /\ Body(length) \in Seq(Bytes)
         /\ Len(Body(length)) = length
         /\ \A i \in 1..length : Body(length)[i].kind = "message"
  <1>1. Body(length) \in [1..length -> Bytes]
    BY DEF Body, Bytes
  <1>2. Body(length) \in Seq(Bytes)
    BY <1>1, SeqDef
  <1>3. Len(Body(length)) = length
    BY <1>1, <1>2, LenProperties
  <1>4. QED
    BY <1>2, <1>3 DEF Body

LEMMA OneByte ==
  ASSUME NEW byte \in Bytes
  PROVE  <<byte>> \in Seq(Bytes) /\ Len(<<byte>>) = 1 /\ <<byte>>[1] = byte
  <1>1. <<byte>> \in Seq(Bytes)
    OBVIOUS
  <1>2. Len(<<byte>>) = 1 /\ <<byte>>[1] = byte
    OBVIOUS
  <1>3. QED
    BY <1>1, <1>2

Join(u, s, t) ==
  /\ u \in Seq(Bytes)
  /\ Len(s) \in Nat /\ Len(t) \in Nat
  /\ Len(u) = Len(s) + Len(t)
  /\ \A i \in 1..Len(s) : u[i] = s[i]
  /\ \A i \in 1..Len(t) : u[Len(s) + i] = t[i]

LEMMA Joined ==
  ASSUME NEW s \in Seq(Bytes), NEW t \in Seq(Bytes), NEW u, u = s \o t
  PROVE  Join(u, s, t)
  <1>1. Len(s) \in Nat /\ Len(t) \in Nat
    BY LenProperties
  <1>2. QED
    BY <1>1, ConcatProperties DEF Join

(* `new' is `old', then a header, then n bytes that are no header.         *)
Extended(new, old, header, n) ==
  /\ new \in Seq(Bytes)
  /\ Len(new) = Len(old) + 1 + n
  /\ Len(old) \in Nat
  /\ \A i \in 1..Len(old) : new[i] = old[i]
  /\ new[Len(old) + 1] = header
  /\ \A i \in Len(old) + 2 .. Len(new) : ~IsHeader(new[i])

(* status(code).send(text).end(), before anything was serialized or after  *)
(* sendFiles had failed.                                                   *)
LEMMA HeaderAndBody ==
  ASSUME Bounds, NEW old \in Seq(Bytes), NEW new, NEW code \in STATUS_CODE,
         NEW length \in 0..MaxMessage, NEW c \in BOOLEAN,
         new = old \o <<Header(code, {length}, c)>> \o Body(length)
  PROVE  Extended(new, old, Header(code, {length}, c), length)
  <1>1. {length} \in Lengths /\ length \in Nat
    <2>1. length \in Nat /\ length \in -MaxFile..(MaxFile + MaxMessage)
      BY DEF Bounds
    <2>2. QED
      BY <2>1 DEF Lengths
  <1>2. PICK h : h = <<Header(code, {length}, c)>>
    OBVIOUS
  <1>3. /\ h \in Seq(Bytes) /\ Len(h) = 1 /\ h[1] = Header(code, {length}, c)
        /\ IsHeader(h[1])
    BY <1>1, <1>2, HeaderType, OneByte
  <1>4. PICK b : b = Body(length)
    OBVIOUS
  <1>5. /\ b \in Seq(Bytes) /\ Len(b) = length
        /\ \A i \in 1..length : b[i].kind = "message"
    BY <1>1, <1>4, BodyType
  <1>6. PICK m : m = old \o h
    OBVIOUS
  <1>7. /\ m \in Seq(Bytes)
        /\ Len(old) \in Nat /\ Len(h) \in Nat
        /\ Len(m) = Len(old) + Len(h)
        /\ \A i \in 1..Len(old) : m[i] = old[i]
        /\ \A i \in 1..Len(h) : m[Len(old) + i] = h[i]
    <2>1. h \in Seq(Bytes)
      BY <1>3
    <2>2. QED
      BY <1>6, <2>1, Joined DEF Join
  <1>8. new = m \o b
    BY <1>2, <1>4, <1>6
  <1>9. /\ new \in Seq(Bytes)
        /\ Len(m) \in Nat /\ Len(b) \in Nat
        /\ Len(new) = Len(m) + Len(b)
        /\ \A i \in 1..Len(m) : new[i] = m[i]
        /\ \A i \in 1..Len(b) : new[Len(m) + i] = b[i]
    <2>1. PICK n : n = m \o b
      OBVIOUS
    <2>2. m \in Seq(Bytes)
      BY <1>7
    <2>3. b \in Seq(Bytes)
      BY <1>5
    <2>4. /\ n \in Seq(Bytes)
          /\ Len(m) \in Nat /\ Len(b) \in Nat
          /\ Len(n) = Len(m) + Len(b)
          /\ \A i \in 1..Len(m) : n[i] = m[i]
          /\ \A i \in 1..Len(b) : n[Len(m) + i] = b[i]
      BY <2>1, <2>2, <2>3, Joined DEF Join
    <2>5. n = new
      BY <1>8, <2>1
    <2>6. QED
      BY <2>4, <2>5
  <1>10. Len(new) = Len(old) + 1 + length
    BY <1>3, <1>5, <1>7, <1>9
  <1>11. \A i \in 1..Len(old) : new[i] = old[i]
    BY <1>3, <1>7, <1>9
  <1>12. new[Len(old) + 1] = Header(code, {length}, c)
    BY <1>3, <1>7, <1>9
  <1>13. ASSUME NEW i \in Len(old) + 2 .. Len(new) PROVE ~IsHeader(new[i])
    <2>1. i - Len(m) \in 1..length /\ i = Len(m) + (i - Len(m))
      BY <1>1, <1>3, <1>7, <1>10
    <2>2. QED
      BY <1>5, <1>9, <2>1 DEF IsHeader
  <1>14. QED
    BY <1>7, <1>9, <1>10, <1>11, <1>12, <1>13 DEF Extended

-----------------------------------------------------------------------------
(* The invariant, one lemma per way to change the response                 *)

LEMMA IInvInit == ASSUME Bounds PROVE Init => IInv
  <1> SUFFICES ASSUME Init PROVE IInv
    OBVIOUS
  <1>1. data = <<>> /\ data \in Seq(Bytes) /\ Len(data) = 0
    BY DEF Init
  <1>2. TypeOK
    <2>1. region \in FileRegions
      BY DEF Bounds, Init, FileRegions, NoRegion
    <2>2. contentLength \in Lengths
      BY DEF Init, Lengths
    <2>3. hasEnded \in BOOLEAN /\ chunked \in BOOLEAN /\ zipFailed \in BOOLEAN
      BY DEF Init
    <2>4. status \in STATUS_CODE
      BY DEF Init, STATUS_CODE
    <2>5. message \in 0..MaxMessage /\ stage \in {"handling", "taken", "lost"} /\ calls \in 0..MaxCalls
      BY DEF Bounds, Init
    <2>6. QED
      BY <1>1, <2>1, <2>2, <2>3, <2>4, <2>5 DEF TypeOK
  <1>3. region \in Slices /\ Blank
    BY <1>1 DEF Init, Slices, Blank, NoRegion
  <1>4. RoomEnough
    BY <1>1 DEF Init, RoomEnough
  <1>5. QED
    BY <1>2, <1>3, <1>4 DEF IInv, Init

(* Nothing is serialized; what was may be at its end.                      *)
LEMMA QuietStep ==
  ASSUME Bounds, IInv,
         UNCHANGED <<data, region, hasEnded, chunked, zipFailed>>,
         status' \in STATUS_CODE, message' \in 0..MaxMessage, contentLength' \in Lengths,
         stage' \in {"handling", "taken", "lost"}, stage' = "taken" => hasEnded,
         calls' \in 0..MaxCalls, calls' >= calls
  PROVE  IInv'
  <1>1. TypeOK'
    BY DEF IInv, TypeOK
  <1>2. region' \in Slices
    BY DEF IInv
  <1>3. IF zipFailed' THEN HeaderFirst' ELSE (Blank \/ Whole)'
    BY DEF IInv, HeaderFirst, Blank, Whole, NoOtherHeader, TellsLength, BodyInMemory, BodyInFile
  <1>4. RoomEnough'
    <2>1. Len(data) \in Nat /\ calls \in Int /\ calls' \in Int /\ EndSize \in Int
      BY LenProperties DEF IInv, TypeOK, Bounds, EndSize
    <2>2. QED
      BY <2>1 DEF IInv, RoomEnough, EndSize
  <1>5. QED
    BY <1>1, <1>2, <1>3, <1>4 DEF IInv

(* A header and a message behind what there is.                            *)
LEMMA EndWithStep ==
  ASSUME Bounds, IInv, ~hasEnded, NEW code \in STATUS_CODE, NEW length \in 0..MaxMessage,
         EndWith(code, length), UNCHANGED zipFailed,
         stage' \in {"handling", "taken", "lost"}, calls' \in 0..MaxCalls, calls' >= calls
  PROVE  IInv'
  <1>1. /\ status' = code /\ message' = length /\ contentLength' = {length}
        /\ data' = data \o <<Header(code, {length}, chunked)>> \o Body(length)
        /\ hasEnded' = TRUE /\ chunked' = chunked /\ region' = region
    BY DEF EndWith
  <1>2. TypeOK /\ data \in Seq(Bytes) /\ chunked \in BOOLEAN
    BY DEF IInv, TypeOK
  <1>3. {length} \in Lengths /\ length \in Nat /\ MaxMessage \in Nat /\ length <= MaxMessage
    BY DEF Bounds, Lengths
  <1>4. PICK new : new = data'
    OBVIOUS
  <1>5. /\ new \in Seq(Bytes)
        /\ Len(new) = Len(data) + 1 + length
        /\ Len(data) \in Nat
        /\ \A i \in 1..Len(data) : new[i] = data[i]
        /\ new[Len(data) + 1] = Header(code, {length}, chunked)
        /\ \A i \in Len(data) + 2 .. Len(new) : ~IsHeader(new[i])
    <2>1. new = data \o <<Header(code, {length}, chunked)>> \o Body(length)
      BY <1>1, <1>4
    <2>2. Extended(new, data, Header(code, {length}, chunked), length)
      BY <1>2, <2>1, HeaderAndBody
    <2>3. QED
      BY <2>2 DEF Extended
  <1>6. TypeOK'
    BY <1>1, <1>2, <1>3, <1>4, <1>5 DEF TypeOK
  <1>7. region' \in Slices
    BY <1>1 DEF IInv
  <1>8. ASSUME zipFailed PROVE HeaderFirst'
    <2>1. Len(data) >= 1 /\ IsHeader(data[1])
      BY <1>2, <1>8, <1>5, EmptySeq DEF IInv, HeaderFirst
    <2>2. Len(new) >= 1 /\ IsHeader(new[1])
      BY <1>3, <1>5, <2>1
    <2>3. HeaderFirst'
      BY <1>4, <2>2, EmptySeq DEF HeaderFirst
    <2>4. QED
      BY <2>3
  <1>9. ASSUME ~zipFailed PROVE Whole'
    <2>1. data = <<>> /\ ~chunked /\ ~region.valid
      BY <1>9 DEF IInv, Blank, Whole
    <2>2. Len(data) = 0
      BY <2>1
    <2>3. /\ new[1] = Header(code, {length}, chunked)
          /\ Len(new) = 1 + length
          /\ \A i \in 2..Len(new) : ~IsHeader(new[i])
      BY <1>3, <1>5, <2>2
    <2>4. /\ IsHeader(new[1]) /\ new[1].length = {length} /\ new[1].chunked = FALSE
      <3>1. code \in STATUS_CODE /\ {length} \in Lengths /\ chunked \in BOOLEAN
        BY <1>2, <1>3
      <3>2. PICK h : h = Header(code, {length}, chunked)
        OBVIOUS
      <3>3. IsHeader(h) /\ h.length = {length} /\ h.chunked = chunked
        BY <3>1, <3>2, HeaderType
      <3>4. QED
        BY <2>1, <2>3, <3>1, <3>2, <3>3
    <2>5. new # <<>>
      BY <1>3, <2>3
    <2>6. TellsLength'
      <3>1. BodyInMemory' = length
        BY <1>3, <1>4, <2>3 DEF BodyInMemory
      <3>2. BodyInFile' = 0
        BY <1>1, <2>1 DEF BodyInFile
      <3>3. BodyInMemory' + BodyInFile' = length
        BY <1>3, <3>1, <3>2
      <3>4. data'[1].chunked = FALSE /\ data'[1].length = {length}
        BY <1>4, <2>4
      <3>5. QED
        BY <3>3, <3>4 DEF TellsLength
    <2>7. HeaderFirst' /\ NoOtherHeader' /\ hasEnded'
      BY <1>1, <1>4, <2>3, <2>4, <2>5 DEF HeaderFirst, NoOtherHeader
    <2>8. QED
      BY <2>6, <2>7 DEF Whole
  <1>10. RoomEnough'
    <2>1. calls \in Int /\ calls' \in Int
      BY <1>2 DEF TypeOK
    <2>2. Len(data) <= 2 * calls
      BY <1>5, <2>1 DEF IInv, RoomEnough
    <2>3. QED
      BY <1>1, <1>3, <1>4, <1>5, <2>1, <2>2 DEF RoomEnough, EndSize
  <1>11. QED
    BY <1>1, <1>6, <1>7, <1>8, <1>9, <1>10 DEF IInv

(* A header in memory, and a slice of the file.                            *)
LEMMA SendSliceStep ==
  ASSUME Bounds, IInv, ~hasEnded, UNCHANGED zipFailed,
         NEW size \in 0..MaxFile, NEW start \in -1..MaxFile, NEW end \in -1..MaxFile,
         InRange(start, end, size), SendSlice(start, end, size),
         stage' \in {"handling", "taken", "lost"}, calls' \in 0..MaxCalls, calls' >= calls
  PROVE  IInv'
  <1>1. PICK code : code = IF IsPartial(start, end) THEN PARTIAL_CONTENT ELSE status
    OBVIOUS
  <1>2. PICK n : n = PromisedLength(start, end, size)
    OBVIOUS
  <1>3. /\ status' = code /\ message' = message /\ contentLength' = {n}
        /\ data' = Append(data, Header(code, {n}, chunked))
        /\ hasEnded' = TRUE /\ chunked' = chunked /\ region' = Slice(start, end, size)
    BY <1>1, <1>2 DEF SendSlice
  <1>4. TypeOK /\ data \in Seq(Bytes) /\ chunked \in BOOLEAN /\ code \in STATUS_CODE
    BY <1>1 DEF IInv, TypeOK, STATUS_CODE
  <1>5. PICK first, last : first = FirstByte(start) /\ last = LastByte(end, size)
    OBVIOUS
  <1>6. /\ first \in 0..MaxFile /\ last \in -1..MaxFile /\ last < size
        /\ n = last - first + 1 /\ MaxFile \in Nat /\ MaxMessage \in Nat
    BY <1>2, <1>5 DEF Bounds, InRange, PromisedLength, IsPartial, FirstByte, LastByte
  <1>7. region' = [valid |-> TRUE, offset |-> first, remaining |-> n]
    BY <1>3, <1>5, <1>6 DEF Slice, Region
  <1>8. n \in -MaxFile..MaxFile /\ first + n <= MaxFile /\ {n} \in Lengths
    BY <1>6 DEF Lengths
  <1>9. region' \in FileRegions /\ region' \in Slices
    BY <1>6, <1>7, <1>8 DEF FileRegions, Slices
  <1>10. PICK h : h = Header(code, {n}, chunked)
    OBVIOUS
  <1>11. h \in Bytes /\ IsHeader(h) /\ h.length = {n} /\ h.chunked = chunked
    BY <1>4, <1>8, <1>10, HeaderType
  <1>12. PICK new : new = data'
    OBVIOUS
  <1>13. /\ new \in Seq(Bytes)
         /\ Len(new) = Len(data) + 1
         /\ Len(data) \in Nat
         /\ \A i \in 1..Len(data) : new[i] = data[i]
         /\ new[Len(data) + 1] = h
    BY <1>3, <1>4, <1>10, <1>11, <1>12, AppendProperties
  <1>14. TypeOK'
    BY <1>3, <1>4, <1>8, <1>9, <1>12, <1>13 DEF TypeOK
  <1>15. ASSUME zipFailed PROVE HeaderFirst'
    <2>1. Len(data) >= 1 /\ IsHeader(data[1])
      BY <1>4, <1>13, <1>15, EmptySeq DEF IInv, HeaderFirst
    <2>2. Len(new) >= 1 /\ IsHeader(new[1])
      BY <1>13, <2>1
    <2>3. QED
      BY <1>12, <2>2, EmptySeq DEF HeaderFirst
  <1>16. ASSUME ~zipFailed PROVE Whole'
    <2>1. data = <<>> /\ ~chunked
      BY <1>16 DEF IInv, Blank, Whole
    <2>2. new[1] = h /\ Len(new) = 1
      BY <1>13, <2>1
    <2>3. new # <<>>
      BY <2>2
    <2>4. HeaderFirst' /\ NoOtherHeader' /\ hasEnded'
      BY <1>3, <1>11, <1>12, <2>2, <2>3 DEF HeaderFirst, NoOtherHeader
    <2>5. BodyInMemory' = 0
      BY <1>12, <2>2 DEF BodyInMemory
    <2>6. BodyInFile' = n
      BY <1>7 DEF BodyInFile
    <2>7. BodyInMemory' + BodyInFile' = n
      BY <1>8, <2>5, <2>6
    <2>8. data'[1].chunked = FALSE /\ data'[1].length = {n}
      BY <1>11, <1>12, <2>1, <2>2
    <2>9. TellsLength'
      BY <2>7, <2>8 DEF TellsLength
    <2>10. QED
      BY <2>4, <2>9 DEF Whole
  <1>17. RoomEnough'
    <2>1. calls \in Int /\ calls' \in Int
      BY <1>4 DEF TypeOK
    <2>2. Len(data) <= 2 * calls
      BY <1>13, <2>1 DEF IInv, RoomEnough
    <2>3. QED
      BY <1>3, <1>6, <1>12, <1>13, <2>1, <2>2 DEF RoomEnough, EndSize
  <1>18. QED
    BY <1>3, <1>9, <1>14, <1>15, <1>16, <1>17 DEF IInv

(* A chunked header, then chunks; the last one only if nothing was thrown. *)
LEMMA SendFilesStep == ASSUME Bounds, IInv, ~hasEnded, SendFiles PROVE IInv'
  <1>1. /\ stage' = stage /\ calls' = calls + 1 /\ calls < MaxCalls
        /\ contentLength' = Unset /\ chunked' = TRUE
        /\ status' = status /\ message' = message /\ region' = region
    BY DEF SendFiles, Call
  <1>2. TypeOK /\ data \in Seq(Bytes) /\ status \in STATUS_CODE /\ calls \in 0..MaxCalls
    BY DEF IInv, TypeOK
  <1>3. Unset \in Lengths
    BY DEF Lengths
  <1>4. PICK h : h = Header(status, Unset, TRUE)
    OBVIOUS
  <1>5. h \in Bytes /\ IsHeader(h) /\ h.length = Unset /\ h.chunked = TRUE
    BY <1>2, <1>3, <1>4, HeaderType
  <1>6. PICK begun : begun = ChunkedHeader
    OBVIOUS
  <1>7. /\ begun \in Seq(Bytes)
        /\ Len(begun) = Len(data) + 1
        /\ Len(data) \in Nat
        /\ \A i \in 1..Len(data) : begun[i] = data[i]
        /\ begun[Len(data) + 1] = h
    <2>1. begun = Append(data, h)
      BY <1>4, <1>6 DEF ChunkedHeader
    <2>2. QED
      BY <1>2, <1>5, <2>1, AppendProperties
  <1>8. begun[1] = h \/ (zipFailed /\ IsHeader(begun[1]))
    <2>1. ASSUME zipFailed PROVE IsHeader(begun[1])
      <3>1. Len(data) >= 1 /\ IsHeader(data[1])
        BY <1>2, <1>7, <2>1, EmptySeq DEF IInv, HeaderFirst
      <3>2. QED
        BY <1>7, <3>1
    <2>2. ASSUME ~zipFailed PROVE begun[1] = h
      <3>1. data = <<>>
        BY <2>2 DEF IInv, Blank, Whole
      <3>2. QED
        BY <1>7, <3>1
    <2>3. QED
      BY <2>1, <2>2
  <1>9. Chunks \in Seq(Bytes) /\ Len(Chunks) = 1 /\ Chunks[1].kind = "chunk"
    <2>1. [kind |-> "chunk"] \in Bytes
      BY DEF Bytes
    <2>2. QED
      BY <2>1, OneByte DEF Chunks
  <1>10. LastChunk \in Seq(Bytes) /\ Len(LastChunk) = 1 /\ LastChunk[1].kind = "end"
    <2>1. [kind |-> "end"] \in Bytes
      BY DEF Bytes
    <2>2. QED
      BY <2>1, OneByte DEF LastChunk
  <1>11. PICK new : new = data'
    OBVIOUS
  <1>12. calls' \in 0..MaxCalls /\ calls \in Int /\ MaxMessage \in Nat /\ Len(data) <= 2 * calls
    BY <1>1, <1>2, <1>7 DEF Bounds, IInv, RoomEnough
  <1>13. region' \in Slices
    BY <1>1 DEF IInv
  <1>14. CASE new = begun \o Chunks \o LastChunk /\ hasEnded' = TRUE /\ zipFailed' = zipFailed
    <2>1. PICK m : m = begun \o Chunks
      OBVIOUS
    <2>2. new = m \o LastChunk
      BY <1>14, <2>1
    <2>3. /\ m \in Seq(Bytes) /\ Len(m) = Len(begun) + 1
          /\ \A i \in 1..Len(begun) : m[i] = begun[i]
          /\ m[Len(begun) + 1] = Chunks[1]
      <3>1. Join(m, begun, Chunks)
        BY <1>7, <1>9, <2>1, Joined
      <3>2. QED
        BY <1>9, <3>1 DEF Join
    <2>4. /\ new \in Seq(Bytes) /\ Len(new) = Len(m) + 1
          /\ \A i \in 1..Len(m) : new[i] = m[i]
          /\ new[Len(m) + 1] = LastChunk[1]
      <3>1. Join(new, m, LastChunk)
        BY <1>10, <2>2, <2>3, Joined
      <3>2. QED
        BY <1>10, <3>1 DEF Join
    <2>5. /\ Len(new) = Len(data) + 3
          /\ new[1] = begun[1]
          /\ new[Len(data) + 2].kind = "chunk"
          /\ new[Len(data) + 3].kind = "end"
      BY <1>7, <1>9, <1>10, <2>3, <2>4
    <2>6. HeaderFirst'
      BY <1>5, <1>7, <1>8, <1>11, <2>5 DEF HeaderFirst
    <2>7. ASSUME ~zipFailed PROVE Whole'
      <3>1. data = <<>> /\ ~region.valid
        BY <2>7 DEF IInv, Blank, Whole
      <3>2. Len(new) = 3 /\ new[2].kind = "chunk" /\ new[3].kind = "end"
        BY <2>5, <3>1
      <3>3. new[1].length = Unset /\ new[1].chunked = TRUE
        BY <1>5, <1>8, <2>5, <2>7
      <3>4. NoOtherHeader'
        BY <1>11, <3>2 DEF NoOtherHeader, IsHeader
      <3>5. TellsLength'
        BY <1>1, <1>11, <3>1, <3>2, <3>3 DEF TellsLength
      <3>6. QED
        BY <1>14, <2>6, <3>4, <3>5 DEF Whole
    <2>8. TypeOK'
      BY <1>1, <1>2, <1>3, <1>11, <1>12, <1>14, <2>4 DEF TypeOK
    <2>9. RoomEnough'
      BY <1>1, <1>7, <1>11, <1>12, <1>14, <2>5 DEF RoomEnough, EndSize
    <2>10. QED
      BY <1>1, <1>13, <1>14, <2>6, <2>7, <2>8, <2>9 DEF IInv
  <1>15. ASSUME NEW part \in {<<>>, Chunks}, new = begun \o part, hasEnded' = FALSE, zipFailed' = TRUE
         PROVE  IInv'
    <2>1. part \in Seq(Bytes) /\ Len(part) \in Nat /\ Len(part) <= 1
      <3>1. CASE part = <<>>
        BY <3>1
      <3>2. CASE part = Chunks
        <4>1. Chunks \in Seq(Bytes) /\ Len(Chunks) = 1
          BY <1>9
        <4>2. QED
          BY <3>2, <4>1
      <3>3. QED
        BY <1>15, <3>1, <3>2
    <2>2. /\ new \in Seq(Bytes) /\ Len(new) = Len(begun) + Len(part)
          /\ \A i \in 1..Len(begun) : new[i] = begun[i]
      <3>1. Join(new, begun, part)
        BY <1>7, <1>15, <2>1, Joined
      <3>2. QED
        BY <3>1 DEF Join
    <2>3. Len(new) >= 1 /\ Len(new) <= Len(data) + 2 /\ new[1] = begun[1]
      <3>1. Len(begun) \in Nat /\ Len(begun) >= 1
        BY <1>7
      <3>2. new[1] = begun[1]
        BY <2>2, <3>1
      <3>3. QED
        BY <1>7, <2>1, <2>2, <3>2
    <2>4. HeaderFirst'
      BY <1>5, <1>8, <1>11, <2>2, <2>3 DEF HeaderFirst
    <2>5. TypeOK'
      BY <1>1, <1>2, <1>3, <1>11, <1>12, <1>15, <2>2 DEF TypeOK
    <2>6. RoomEnough'
      BY <1>1, <1>7, <1>11, <1>12, <1>15, <2>2, <2>3 DEF RoomEnough
    <2>7. QED
      BY <1>1, <1>13, <1>15, <2>4, <2>5, <2>6 DEF IInv
  <1>16. QED
    BY <1>6, <1>11, <1>14, <1>15 DEF SendFiles

(* end(), and status().send().end(): ended before or not.                  *)
LEMMA EndedStep ==
  ASSUME Bounds, IInv, Ended, UNCHANGED zipFailed,
         stage' \in {"handling", "taken", "lost"}, calls' \in 0..MaxCalls, calls' >= calls
  PROVE  IInv'
  <1>1. TypeOK
    BY DEF IInv
  <1>2. CASE hasEnded
    BY <1>1, <1>2, QuietStep DEF Ended, Ignored, TypeOK
  <1>3. CASE ~hasEnded
    BY <1>1, <1>3, EndWithStep DEF Ended, TypeOK
  <1>4. QED
    BY <1>2, <1>3

LEMMA RefusedStep ==
  ASSUME Bounds, IInv, NEW code \in STATUS_CODE, Refused(code), UNCHANGED zipFailed,
         stage' \in {"handling", "taken", "lost"}, calls' \in 0..MaxCalls, calls' >= calls
  PROVE  IInv'
  <1>1. TypeOK /\ MaxMessage \in 0..MaxMessage
    BY DEF IInv, Bounds
  <1>2. CASE hasEnded
    <2>1. /\ status' = code /\ message' = MaxMessage
          /\ UNCHANGED <<hasEnded, contentLength, chunked, data, region>>
      BY <1>2 DEF Refused
    <2>2. QED
      BY <1>1, <1>2, <2>1, QuietStep DEF TypeOK
  <1>3. CASE ~hasEnded
    BY <1>1, <1>3, EndWithStep DEF Refused
  <1>4. QED
    BY <1>2, <1>3

LEMMA SendFileStep ==
  ASSUME Bounds, IInv, NEW size \in 0..MaxFile, NEW start \in -1..MaxFile,
         NEW end \in -1..MaxFile, SendFile(size, start, end)
  PROVE  IInv'
  <1>1. /\ stage' = stage /\ stage \in {"handling", "taken", "lost"}
        /\ calls' \in 0..MaxCalls /\ calls' >= calls
        /\ UNCHANGED zipFailed
    BY DEF SendFile, Call, IInv, TypeOK, Bounds
  <1>2. CASE hasEnded /\ Ignored
    <2>1. Ended
      BY <1>2 DEF Ended
    <2>2. QED
      BY <1>1, <2>1, EndedStep
  <1>3. CASE Refused(NOT_FOUND) \/ Refused(RANGE_NOT_SATISFIABLE)
    <2>1. NOT_FOUND \in STATUS_CODE /\ RANGE_NOT_SATISFIABLE \in STATUS_CODE
      BY DEF STATUS_CODE
    <2>2. QED
      BY <1>1, <1>3, <2>1, RefusedStep
  <1>4. CASE ~hasEnded /\ InRange(start, end, size) /\ SendSlice(start, end, size)
    BY <1>1, <1>4, SendSliceStep
  <1>5. QED
    BY <1>2, <1>3, <1>4 DEF SendFile

LEMMA HandlerCallStep ==
  ASSUME Bounds, IInv, NEW size \in 0..MaxFile, HandlerCall(size)
  PROVE  IInv'
  <1> DEFINE Counted ==
        /\ stage' = stage /\ stage \in {"handling", "taken", "lost"}
        /\ stage = "handling"
        /\ calls' \in 0..MaxCalls /\ calls' >= calls
  <1>1. ASSUME Call PROVE Counted
    BY <1>1 DEF Call, IInv, TypeOK, Bounds
  <1>2. ASSUME NEW code \in STATUS_CODE, SetStatus(code) PROVE IInv'
    <2>1. Counted
      BY <1>1, <1>2 DEF SetStatus
    <2>2. QED
      BY <1>2, <2>1, QuietStep DEF SetStatus, IInv, TypeOK
  <1>3. ASSUME NEW length \in 0..MaxMessage, Send(length) PROVE IInv'
    <2>1. Counted
      BY <1>1, <1>3 DEF Send
    <2>2. QED
      BY <1>3, <2>1, QuietStep DEF Send, IInv, TypeOK
  <1>4. CASE End
    <2>1. Counted
      BY <1>1, <1>4 DEF End
    <2>2. QED
      BY <1>4, <2>1, EndedStep DEF End
  <1>5. CASE SendNotFound \/ SendInvalidRange
    <2>1. PICK code \in STATUS_CODE : Reply(code)
      BY <1>5 DEF SendNotFound, SendInvalidRange, STATUS_CODE
    <2>2. Counted
      BY <1>1, <2>1 DEF Reply
    <2>3. QED
      BY <2>1, <2>2, RefusedStep DEF Reply
  <1>6. ASSUME NEW start \in -1..MaxFile, NEW end \in -1..MaxFile, SendFile(size, start, end)
        PROVE  IInv'
    BY <1>6, SendFileStep
  <1>7. CASE SendFiles
    <2>1. CASE hasEnded
      <3>1. Counted
        BY <1>1, <1>7 DEF SendFiles
      <3>2. Ended /\ UNCHANGED zipFailed
        BY <1>7, <2>1 DEF SendFiles, Ended
      <3>3. QED
        BY <3>1, <3>2, EndedStep
    <2>2. CASE ~hasEnded
      BY <1>7, <2>2, SendFilesStep
    <2>3. QED
      BY <2>1, <2>2
  <1>8. QED
    BY <1>2, <1>3, <1>4, <1>5, <1>6, <1>7 DEF HandlerCall

LEMMA IInvNext == ASSUME Bounds, IInv, [Next]_vars PROVE IInv'
  <1>1. ASSUME NEW size \in 0..MaxFile, HandlerCall(size) PROVE IInv'
    BY <1>1, HandlerCallStep
  <1>2. ASSUME Return \/ Throw PROVE IInv'
    <2>1. stage' = "taken" /\ calls' = calls /\ calls \in 0..MaxCalls /\ UNCHANGED zipFailed
      BY <1>2 DEF Return, Throw, Take, IInv, TypeOK
    <2>2. calls' >= calls
      BY <2>1 DEF Bounds
    <2>3. BAD_REQUEST \in STATUS_CODE
      BY DEF STATUS_CODE
    <2>4. CASE Return
      BY <2>1, <2>2, <2>4, EndedStep DEF Return
    <2>5. CASE Throw
      BY <2>1, <2>2, <2>3, <2>5, RefusedStep DEF Throw
    <2>6. QED
      BY <1>2, <2>4, <2>5
  <1>5. CASE Escape
    <2>1. calls' = calls /\ calls \in 0..MaxCalls /\ calls' >= calls
      BY <1>5 DEF Escape, IInv, TypeOK, Bounds
    <2>2. QED
      BY <1>5, <2>1, QuietStep DEF Escape, Ignored, IInv, TypeOK
  <1>3. CASE UNCHANGED vars
    <2>1. calls' \in 0..MaxCalls /\ calls' >= calls
      BY <1>3 DEF vars, IInv, TypeOK, Bounds
    <2>2. QED
      BY <1>3, <2>1, QuietStep DEF vars, IInv, TypeOK
  <1>4. QED
    BY <1>1, <1>2, <1>3, <1>5 DEF Next

-----------------------------------------------------------------------------
(* The theorems                                                            *)

(* The invariant is one, whatever a handler calls and in whichever order.  *)
THEOREM Invariance == ASSUME Bounds PROVE Spec => []IInv
  <1>1. Init => IInv
    BY IInvInit
  <1>2. IInv /\ [Next]_vars => IInv'
    BY IInvNext
  <1>3. QED
    BY <1>1, <1>2, PTL DEF Spec

(* The members of a response keep their types: in particular a region of a *)
(* file that sendFile makes lies within the file.                          *)
THEOREM TypeCorrect == ASSUME Bounds PROVE Spec => [](TypeOK /\ region \in Slices)
  <1>1. IInv => TypeOK /\ region \in Slices
    BY DEF IInv
  <1>2. QED
    BY <1>1, Invariance, PTL

(* Unless an exception leaves sendFiles there is one header, and it comes  *)
(* first (end, sendFile, sendFiles and both refusals serialize one).       *)
THEOREM HeaderOnce == ASSUME Bounds PROVE Spec => []OneHeader
  <1>1. IInv => OneHeader
    <2>1. Blank => Len(data) = 0
      BY DEF Blank
    <2>2. QED
      BY <2>1 DEF IInv, Whole, NoOtherHeader, OneHeader
  <1>2. QED
    BY <1>1, Invariance, PTL

(* What processRequest takes begins with a header, whatever was called and *)
(* wherever a std::exception was thrown.                                   *)
THEOREM Answered == ASSUME Bounds PROVE Spec => []StatusLineFirst
  <1>1. IInv => StatusLineFirst
    BY DEF IInv, Whole, Blank, HeaderFirst, StatusLineFirst
  <1>2. QED
    BY <1>1, Invariance, PTL

(* The header announces what follows, in memory and in the file.           *)
THEOREM Framing == ASSUME Bounds PROVE Spec => []FramingHonest
  <1>1. IInv => FramingHonest
    BY DEF IInv, Whole, Blank, TellsLength, FramingHonest
  <1>2. QED
    BY <1>1, Invariance, PTL

(* `data' is as long as the calls made allow: what a bound on the buffer   *)
(* has to leave room for.                                                  *)
THEOREM Room == ASSUME Bounds PROVE Spec => [](Len(data) <= 2 * MaxCalls + EndSize)
  <1>1. IInv => Len(data) <= 2 * MaxCalls + EndSize
    <2>1. SUFFICES ASSUME IInv PROVE Len(data) <= 2 * MaxCalls + EndSize
      OBVIOUS
    <2>2. Len(data) \in Nat
      BY <2>1, LenProperties DEF IInv, TypeOK
    <2>3. QED
      BY <2>1, <2>2 DEF IInv, TypeOK, RoomEnough, EndSize, Bounds
  <1>2. QED
    BY <1>1, Invariance, PTL

(* After end() no call and no exception changes what the client gets: each *)
(* operation that serializes asks hasEnded first.                          *)
LEMMA NextKeepsTheEnd == [Next]_vars => (hasEnded => UNCHANGED <<data, region>>)
  <1> SUFFICES ASSUME [Next]_vars, hasEnded PROVE UNCHANGED <<data, region>>
    OBVIOUS
  <1>1. Ended \/ Ignored => UNCHANGED <<data, region>>
    BY DEF Ended, Ignored
  <1>2. ASSUME NEW code, Refused(code) PROVE UNCHANGED <<data, region>>
    BY <1>2 DEF Refused
  <1>3. ASSUME NEW size \in 0..MaxFile, HandlerCall(size) PROVE UNCHANGED <<data, region>>
    <2>1. ASSUME NEW start \in -1..MaxFile, NEW end \in -1..MaxFile, SendFile(size, start, end)
          PROVE  UNCHANGED <<data, region>>
      BY <1>1, <2>1 DEF SendFile
    <2>2. SendFiles => UNCHANGED <<data, region>>
      BY <1>1 DEF SendFiles
    <2>3. QED
      BY <1>1, <1>2, <1>3, <2>1, <2>2
      DEF HandlerCall, SetStatus, Send, End, SendNotFound, SendInvalidRange, Reply
  <1>4. Return \/ Throw \/ Escape => UNCHANGED <<data, region>>
    BY <1>1, <1>2 DEF Return, Throw, Escape
  <1>5. QED
    BY <1>3, <1>4 DEF Next, vars

THEOREM Final == Spec => EndedIsFinal
  BY NextKeepsTheEnd, PTL DEF Spec, EndedIsFinal

=============================================================================
