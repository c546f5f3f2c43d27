---------------------------- MODULE BufferProofs -----------------------------
(***************************************************************************)
(* Theorems of Buffer, for words of any width, any number of buffers, every *)
(* mode, announced or made up, and all areas drawn: types, the memory that  *)
(* libevdi may write to, and what a version, the rects and a picture file   *)
(* say of a buffer.                                                        *)
(***************************************************************************)
EXTENDS Buffer, SequenceTheorems, TLAPS

-----------------------------------------------------------------------------
(* Numbers, modes and rects.                                               *)

\* A function on 1..n is a sequence of length n.
LEMMA LenOfFunction ==
  ASSUME NEW n \in Nat, NEW f, f = [k \in 1..n |-> f[k]]
  PROVE  Len(f) = n
<1> DEFINE S == {f[k] : k \in 1..n}
<1>1. f \in [1..n -> S]
  OBVIOUS
<1>2. f \in Seq(S)
  BY <1>1, SeqDef
<1>3. Len(f) \in Nat /\ DOMAIN f = 1..Len(f)
  BY <1>2, LenProperties
<1>4. DOMAIN f = 1..n
  BY <1>1
<1> HIDE DEF S
<1> QED
  BY <1>3, <1>4

LEMMA Constants ==
  /\ None \notin Ids /\ None \notin Int
  /\ MaxRects \in Nat /\ MaxRects # 0 /\ MaxPictures \in Nat /\ MaxPictures # 0
  /\ MaxVersion \in Nat /\ MaxVersion < Word
  /\ Word \in Nat /\ Word # 0 /\ MaxRects < Word
  /\ Allowed \subseteq SysModes /\ Areas \subseteq Rect
BY BufferAssumption DEF BufferAssumption, Allowed

\* A u32 that a cast to a c_int did not turn negative is what it was.
LEMMA CastKeeps ==
  ASSUME NEW n \in 0..Word-1
  PROVE  AsInt(n) \in Int /\ (AsInt(n) >= 0 => AsInt(n) = n)
<1>1. Word \in Nat /\ n \in Nat /\ n < Word
  BY Constants
<1>2. n % Word = n
  BY <1>1
<1> QED
  BY <1>1, <1>2 DEF AsInt, AsU32

LEMMA SysMode ==
  ASSUME NEW m \in Allowed
  PROVE  /\ m.width \in Nat /\ m.height \in Nat /\ m.bits_per_pixel \in Nat
         /\ m.pixel_format \in Formats /\ Depth(m) \in Nat /\ Depth(m) * m.width \in Nat
<1>1. /\ m.width \in Nat /\ m.height \in Nat /\ m.bits_per_pixel \in Nat
      /\ m.pixel_format \in Formats
  BY Constants, BufferAssumption DEF BufferAssumption
<1>2. Depth(m) \in Nat
  BY <1>1 DEF Depth
<1> QED
  BY <1>1, <1>2

\* Whatever new_buffer is given, the dimensions of the buffer are u32s.
LEMMA ModeType ==
  ASSUME NEW m \in Modes
  PROVE  /\ m.width \in 0..Word-1 /\ m.height \in 0..Word-1 /\ Stride(m) \in 0..Word-1
         /\ m.pixel_format \in Formats
<1>1. /\ m.width \in 0..Word-1 /\ m.height \in 0..Word-1 /\ m.bits_per_pixel \in 0..Word-1
      /\ m.pixel_format \in Formats
  <2>1. CASE m \in UserModes
    BY <2>1, BufferAssumption DEF BufferAssumption
  <2>2. ASSUME NEW sys \in Allowed, m = Mode(sys)
        PROVE  /\ m.width \in 0..Word-1 /\ m.height \in 0..Word-1 /\ m.bits_per_pixel \in 0..Word-1
               /\ m.pixel_format \in Formats
    BY <2>2, SysMode, Constants DEF Mode, AsU32
  <2> QED
    BY <2>1, <2>2 DEF Modes
<1>2. (m.bits_per_pixel \div 8) * m.width \in Nat
  <2>1. m.bits_per_pixel \div 8 \in Nat /\ m.width \in Nat
    BY <1>1, Constants
  <2> QED
    BY <2>1
<1>3. Stride(m) \in 0..Word-1
  BY <1>2, Constants DEF Stride, AsU32
<1> QED
  BY <1>1, <1>3

LEMMA AllPixels ==
  ASSUME NEW m \in Allowed, NEW p \in Grid(m.width, m.height)
  PROVE  All(m) \in Rect /\ Within(p, <<All(m)>>)
BY SysMode DEF Grid, All, Rect, Within, Inside

LEMMA AllRect == ASSUME NEW m \in Allowed PROVE All(m) \in Rect
BY SysMode DEF All, Rect

-----------------------------------------------------------------------------
(* The inductive invariant.                                                *)

\* The buffer of a request stays in the map until the request is over.
Held ==
  updating # None => /\ updating \in DOMAIN buffers /\ bufferToUpdate = updating
                     /\ buffers[updating].version # MaxVersion

\* The map of the Handle, the memory and the registrations go together, and
\* libevdi has been told of each allocation what the casts leave of it.
Lent ==
  /\ DOMAIN registered = DOMAIN buffers /\ DOMAIN memory = DOMAIN buffers
  /\ \A id \in DOMAIN buffers :
       LET b == buffers[id] IN
       /\ registered[id] = Sys(id, b)
       /\ memory[id] = [k \in 1..(b.height * b.stride) |-> memory[id][k]]

\* Every version a buffer has had is at most its present one, so that the next
\* is new; VersionTellsChange is not inductive without it.
Past ==
  \A id \in DOMAIN buffers :
    LET v == buffers[id].version IN
    \A p \in seen[id] : p[1] = None \/ (v # None /\ p[1] \in 0..v)

\* Until the first update in a mode, all of the frame buffer is dirty;
\* SoleBufferCurrent is not inductive without it.
Fresh == takers = {} => \A p \in DOMAIN screen : Within(p, dirty)

BufferInv ==
  TypeOK /\ Held /\ Lent /\ Past /\ VersionTellsChange /\ Fresh /\ SoleBufferCurrent

\* A buffer that the kernel writes to has the shape of the frame buffer, although
\* libevdi has it from a cast.
LEMMA FitShape ==
  ASSUME BufferInv, NEW u \in DOMAIN buffers, NEW m \in Allowed, Fits(registered[u], m)
  PROVE  /\ registered[u].buffer = u /\ registered[u].stride = buffers[u].stride
         /\ buffers[u].width = m.width /\ buffers[u].height = m.height
         /\ buffers[u].stride = Depth(m) * m.width
<1> DEFINE b == buffers[u]
           r == registered[u]
<1>1. b.width \in 0..Word-1 /\ b.height \in 0..Word-1 /\ b.stride \in 0..Word-1
  BY DEF BufferInv, TypeOK, BufferType
<1>2. /\ r.buffer = u /\ r.width = AsInt(b.width) /\ r.height = AsInt(b.height)
      /\ r.stride = AsInt(b.stride)
  BY DEF BufferInv, Lent, Sys
<1>3. m.width >= 0 /\ m.height >= 0 /\ Depth(m) * m.width >= 0
  BY SysMode
<1>4. r.width = m.width /\ r.height = m.height /\ r.stride = Depth(m) * m.width
  BY DEF Fits
<1> HIDE DEF b, r
<1>5. AsInt(b.width) = b.width /\ AsInt(b.height) = b.height /\ AsInt(b.stride) = b.stride
  <2>1. AsInt(b.width) >= 0 /\ AsInt(b.height) >= 0 /\ AsInt(b.stride) >= 0
    BY <1>2, <1>3, <1>4
  <2> QED
    BY <1>1, <2>1, CastKeeps
<1> QED
  BY <1>2, <1>4, <1>5 DEF b, r

LEMMA InitInv == Init => BufferInv
<1> SUFFICES ASSUME Init PROVE BufferInv
  OBVIOUS
<1>1. /\ DOMAIN buffers = {} /\ DOMAIN memory = {} /\ DOMAIN registered = {}
      /\ DOMAIN shown = {} /\ DOMAIN seen = {}
  BY DEF Init, Empty
<1>2. /\ mode \in Allowed /\ picture = 1 /\ takers = {} /\ dirty = <<All(mode)>>
      /\ screen = [p \in Grid(mode.width, mode.height) |-> 1]
      /\ bufferToUpdate = None /\ updating = None
  BY DEF Init
<1>3. TypeOK
  <2>1. dirty \in Seq(Rect) /\ Len(dirty) <= MaxRects
    BY <1>2, AllRect, Constants
  <2>2. screen \in [Grid(mode.width, mode.height) -> 1..MaxPictures] /\ picture \in 1..MaxPictures
    BY <1>2, Constants
  <2> QED
    BY <1>1, <1>2, <2>1, <2>2 DEF TypeOK
<1>4. Held /\ Lent /\ Past
  BY <1>1, <1>2 DEF Held, Lent, Past
<1>5. VersionTellsChange /\ SoleBufferCurrent
  BY <1>1 DEF VersionTellsChange, SoleBufferCurrent
<1>6. Fresh
  BY <1>2, AllPixels DEF Fresh
<1> QED
  BY <1>3, <1>4, <1>5, <1>6 DEF BufferInv

\* A step that leaves one buffer alone.
Same(i) ==
  /\ buffers'[i] = buffers[i] /\ memory'[i] = memory[i] /\ registered'[i] = registered[i]
  /\ shown'[i] = shown[i] /\ seen'[i] = seen[i]

LEMMA NewBufferMaps ==
  ASSUME BufferInv, NEW id \in Ids, NEW m \in Modes, NewBuffer(id, m)
  PROVE  /\ id \notin DOMAIN buffers /\ DOMAIN buffers' = DOMAIN buffers \cup {id}
         /\ DOMAIN memory' = DOMAIN buffers' /\ DOMAIN registered' = DOMAIN buffers'
         /\ DOMAIN shown' = DOMAIN buffers' /\ DOMAIN seen' = DOMAIN buffers'
         /\ \A i \in DOMAIN buffers : Same(i)
         /\ buffers'[id] = New(m) /\ memory'[id] = Allocate(m)
         /\ registered'[id] = Sys(id, New(m))
         /\ shown'[id] = [p \in Grid(m.width, m.height) |-> 0]
         /\ seen'[id] = {<<None, Allocate(m)>>}
<1>1. /\ DOMAIN memory = DOMAIN buffers /\ DOMAIN registered = DOMAIN buffers
      /\ DOMAIN shown = DOMAIN buffers /\ DOMAIN seen = DOMAIN buffers
  BY DEF BufferInv, Lent, TypeOK
<1>2. /\ id \notin DOMAIN buffers
      /\ buffers' = With(buffers, id, New(m)) /\ memory' = With(memory, id, Allocate(m))
      /\ registered' = With(registered, id, Sys(id, New(m)))
      /\ shown' = With(shown, id, [p \in Grid(m.width, m.height) |-> 0])
      /\ seen' = With(seen, id, {<<None, Allocate(m)>>})
  BY DEF NewBuffer
<1>3. \A i \in DOMAIN buffers : i # id
  BY <1>2
<1>4. DOMAIN buffers' = DOMAIN buffers \cup {id} /\ buffers'[id] = New(m)
      /\ \A i \in DOMAIN buffers : buffers'[i] = buffers[i]
  BY <1>2, <1>3 DEF With
<1>5. DOMAIN memory' = DOMAIN buffers \cup {id} /\ memory'[id] = Allocate(m)
      /\ \A i \in DOMAIN buffers : memory'[i] = memory[i]
  BY <1>1, <1>2, <1>3 DEF With
<1>6. DOMAIN registered' = DOMAIN buffers \cup {id} /\ registered'[id] = Sys(id, New(m))
      /\ \A i \in DOMAIN buffers : registered'[i] = registered[i]
  BY <1>1, <1>2, <1>3 DEF With
<1>7. DOMAIN shown' = DOMAIN buffers \cup {id}
      /\ shown'[id] = [p \in Grid(m.width, m.height) |-> 0]
      /\ \A i \in DOMAIN buffers : shown'[i] = shown[i]
  <2> DEFINE v == [p \in Grid(m.width, m.height) |-> 0]
  <2>1. shown' = With(shown, id, v)
    BY <1>2
  <2> HIDE DEF v
  <2> QED
    BY <1>1, <1>3, <2>1 DEF v, With
<1>8. DOMAIN seen' = DOMAIN buffers \cup {id} /\ seen'[id] = {<<None, Allocate(m)>>}
      /\ \A i \in DOMAIN buffers : seen'[i] = seen[i]
  BY <1>1, <1>2, <1>3 DEF With
<1> QED
  BY <1>2, <1>4, <1>5, <1>6, <1>7, <1>8 DEF Same

\* What TypeOK says of one buffer.
BufferOK(i) ==
  LET b == buffers[i] IN
  /\ b \in BufferType
  /\ shown[i] \in [Grid(b.width, b.height) -> 0..MaxPictures]
  /\ \A p \in seen[i] : p[1] \in Version

LEMMA NewBufferInv ==
  ASSUME BufferInv, NEW id \in Ids, NEW m \in Modes, NewBuffer(id, m)
  PROVE  BufferInv'
<1> DEFINE b == New(m)
<1>1. /\ id \notin DOMAIN buffers /\ DOMAIN buffers' = DOMAIN buffers \cup {id}
      /\ DOMAIN memory' = DOMAIN buffers' /\ DOMAIN registered' = DOMAIN buffers'
      /\ DOMAIN shown' = DOMAIN buffers' /\ DOMAIN seen' = DOMAIN buffers'
      /\ \A i \in DOMAIN buffers : Same(i)
      /\ buffers'[id] = b /\ memory'[id] = Allocate(m) /\ registered'[id] = Sys(id, b)
      /\ shown'[id] = [p \in Grid(m.width, m.height) |-> 0]
      /\ seen'[id] = {<<None, Allocate(m)>>}
  BY NewBufferMaps
<1>2. /\ b.version = None /\ b.width = m.width /\ b.height = m.height /\ b.stride = Stride(m)
      /\ b.pixel_format = m.pixel_format
      /\ b.rects = [data |-> [i \in 1..MaxRects |-> [x1 |-> 0, y1 |-> 0, x2 |-> 0, y2 |-> 0]],
                    len  |-> 0]
      /\ b = [version |-> b.version, width |-> b.width, height |-> b.height,
              stride |-> b.stride, pixel_format |-> b.pixel_format, rects |-> b.rects]
  BY DEF New
<1>3. b \in BufferType
  <2>1. b.rects \in [data : [1..MaxRects -> Rect], len : 0..MaxRects]
    BY <1>2, Constants DEF Rect
  <2> HIDE DEF b
  <2> QED
    BY <1>2, <2>1, ModeType DEF BufferType, Version
<1>4. /\ \A k \in 1..(b.height * b.stride) : Allocate(m)[k] = Blank
      /\ Allocate(m) = [k \in 1..(b.height * b.stride) |-> Allocate(m)[k]]
  BY <1>2 DEF Allocate, Bytes
<1> HIDE DEF b
<1>5. /\ updating = None /\ UNCHANGED <<mode, picture, screen, dirty, bufferToUpdate, updating, takers>>
  BY DEF NewBuffer, kernelVars
<1>6. TypeOK'
  <2>1. ASSUME NEW i \in DOMAIN buffers PROVE BufferOK(i)'
    BY <1>1, <2>1 DEF BufferOK, Same, BufferInv, TypeOK
  <2>2. BufferOK(id)'
    <3>1. shown'[id] \in [Grid(b.width, b.height) -> 0..MaxPictures]
      BY <1>1, <1>2, Constants
    <3> QED
      BY <1>1, <1>3, <3>1 DEF BufferOK, Version
  <2>3. \A i \in DOMAIN buffers' : BufferOK(i)'
    BY <1>1, <2>1, <2>2
  <2>4. DOMAIN buffers' \subseteq Ids /\ takers' \subseteq DOMAIN buffers' \cup {None}
    BY <1>1, <1>5 DEF BufferInv, TypeOK
  <2> QED
    BY <1>1, <1>5, <2>3, <2>4 DEF BufferInv, TypeOK, BufferOK, Allowed, Version
<1>7. Held'
  BY <1>5 DEF Held
<1>8. Lent'
  BY <1>1, <1>4 DEF BufferInv, Lent, Same
<1>9. Past'
  BY <1>1 DEF BufferInv, Past, Same
<1>10. VersionTellsChange'
  <2>1. ASSUME NEW i \in DOMAIN buffers'
        PROVE  \A p, q \in seen'[i] :
                 /\ p[1] = q[1] => p[2] = q[2]
                 /\ p[1] = None => \A k \in DOMAIN p[2] : p[2][k] = Blank
    <3>1. CASE i = id
      <4> DEFINE bytes == Allocate(m)
      <4>1. \A k \in DOMAIN bytes : bytes[k] = Blank
        BY <1>4
      <4>2. \A p \in seen'[i] : p = <<None, bytes>>
        BY <1>1, <3>1
      <4> HIDE DEF bytes
      <4>3. \A p \in seen'[i] : p[2] = bytes
        BY <4>2
      <4> QED
        BY <4>1, <4>3
    <3>2. CASE i # id
      BY <1>1, <3>2 DEF BufferInv, VersionTellsChange, Same
    <3> QED
      BY <3>1, <3>2
  <2> QED
    BY <2>1 DEF VersionTellsChange
<1>11. Fresh'
  BY <1>5 DEF BufferInv, Fresh
<1>12. SoleBufferCurrent'
  <2>1. ASSUME NEW i \in DOMAIN buffers', takers \subseteq {i}, NEW p \in DOMAIN screen
        PROVE  Within(p, dirty) \/ shown'[i][p] = screen[p]
    <3>1. CASE i = id
      <4>1. takers = {}
        BY <1>1, <2>1, <3>1, Constants DEF BufferInv, TypeOK
      <4> QED
        BY <4>1 DEF BufferInv, Fresh
    <3>2. CASE i # id
      BY <1>1, <2>1, <3>2 DEF BufferInv, SoleBufferCurrent, Same
    <3> QED
      BY <3>1, <3>2
  <2> QED
    BY <1>5, <2>1 DEF SoleBufferCurrent
<1> QED
  BY <1>6, <1>7, <1>8, <1>9, <1>10, <1>11, <1>12 DEF BufferInv

LEMMA UnregisterMaps ==
  ASSUME BufferInv, NEW id \in Ids, UnregisterBuffer(id)
  PROVE  /\ DOMAIN buffers' = DOMAIN buffers \ {id}
         /\ DOMAIN memory' = DOMAIN buffers' /\ DOMAIN registered' = DOMAIN buffers'
         /\ DOMAIN shown' = DOMAIN buffers' /\ DOMAIN seen' = DOMAIN buffers'
         /\ \A i \in DOMAIN buffers' : Same(i)
<1>1. /\ DOMAIN memory = DOMAIN buffers /\ DOMAIN registered = DOMAIN buffers
      /\ DOMAIN shown = DOMAIN buffers /\ DOMAIN seen = DOMAIN buffers
  BY DEF BufferInv, Lent, TypeOK
<1>2. /\ buffers' = Without(buffers, id) /\ memory' = Without(memory, id)
      /\ registered' = Without(registered, id) /\ shown' = Without(shown, id)
      /\ seen' = Without(seen, id)
  BY DEF UnregisterBuffer
<1>3. /\ DOMAIN buffers' = DOMAIN buffers \ {id}
      /\ \A i \in DOMAIN buffers' : buffers'[i] = buffers[i]
  BY <1>2 DEF Without
<1>4. /\ DOMAIN memory' = DOMAIN buffers \ {id}
      /\ \A i \in DOMAIN memory' : memory'[i] = memory[i]
  BY <1>1, <1>2 DEF Without
<1>5. /\ DOMAIN registered' = DOMAIN buffers \ {id}
      /\ \A i \in DOMAIN registered' : registered'[i] = registered[i]
  BY <1>1, <1>2 DEF Without
<1>6. /\ DOMAIN shown' = DOMAIN buffers \ {id}
      /\ \A i \in DOMAIN shown' : shown'[i] = shown[i]
  BY <1>1, <1>2 DEF Without
<1>7. /\ DOMAIN seen' = DOMAIN buffers \ {id}
      /\ \A i \in DOMAIN seen' : seen'[i] = seen[i]
  BY <1>1, <1>2 DEF Without
<1> QED
  BY <1>3, <1>4, <1>5, <1>6, <1>7 DEF Same

LEMMA UnregisterInv ==
  ASSUME BufferInv, NEW id \in Ids, UnregisterBuffer(id)
  PROVE  BufferInv'
<1>1. /\ DOMAIN buffers' = DOMAIN buffers \ {id}
      /\ DOMAIN memory' = DOMAIN buffers' /\ DOMAIN registered' = DOMAIN buffers'
      /\ DOMAIN shown' = DOMAIN buffers' /\ DOMAIN seen' = DOMAIN buffers'
      /\ \A i \in DOMAIN buffers' : Same(i)
  BY UnregisterMaps
<1>2. /\ updating = None /\ UNCHANGED <<mode, picture, screen, dirty, bufferToUpdate, updating>>
      /\ takers' = {IF t = id THEN None ELSE t : t \in takers}
  BY DEF UnregisterBuffer, kernelVars
<1>3. TypeOK'
  <2>1. ASSUME NEW i \in DOMAIN buffers' PROVE BufferOK(i)'
    BY <1>1, <2>1 DEF BufferOK, Same, BufferInv, TypeOK
  <2>2. takers' \subseteq DOMAIN buffers' \cup {None}
    BY <1>1, <1>2 DEF BufferInv, TypeOK
  <2> QED
    BY <1>1, <1>2, <2>1, <2>2 DEF BufferInv, TypeOK, BufferOK, Allowed, Version
<1>4. Held'
  BY <1>2 DEF Held
<1>5. Lent'
  BY <1>1 DEF BufferInv, Lent, Same
<1>6. Past'
  BY <1>1 DEF BufferInv, Past, Same
<1>7. VersionTellsChange'
  BY <1>1 DEF BufferInv, VersionTellsChange, Same
<1>8. Fresh'
  BY <1>2 DEF BufferInv, Fresh
<1>9. SoleBufferCurrent'
  <2>1. ASSUME NEW i \in DOMAIN buffers', takers' \subseteq {i} PROVE takers \subseteq {i}
    BY <1>1, <1>2, <2>1, Constants DEF BufferInv, TypeOK
  <2> QED
    BY <1>1, <1>2, <2>1 DEF BufferInv, SoleBufferCurrent, Same
<1> QED
  BY <1>3, <1>4, <1>5, <1>6, <1>7, <1>8, <1>9 DEF BufferInv

-----------------------------------------------------------------------------
(* Grab.                                                                   *)

LEMMA NextVersion ==
  ASSUME NEW v \in Version, v # MaxVersion
  PROVE  /\ MarkUpdated(v) \in 0..MaxVersion /\ MarkUpdated(v) # v
         /\ v # None => v \in 0..MaxVersion /\ MarkUpdated(v) = v + 1
<1>1. CASE v = None
  BY <1>1, Constants DEF MarkUpdated
<1>2. CASE v # None
  <2>1. v \in 0..MaxVersion /\ v + 1 \in 0..MaxVersion /\ v + 1 < Word /\ v + 1 \in Nat
    BY <1>2, Constants DEF Version
  <2>2. (v + 1) % Word = v + 1
    BY <2>1, Constants
  <2> QED
    BY <1>2, <2>1, <2>2 DEF MarkUpdated, AsU32
<1> QED
  BY <1>1, <1>2

RectsType == [data : [1..MaxRects -> Rect], len : 0..MaxRects]

\* Writing an int where a usize is kept changes all of it that matters.
LEMMA RectsWritten ==
  ASSUME NEW old \in RectsType, NEW rects \in Seq(Rect), Len(rects) <= MaxRects
  PROVE  /\ WriteRects(old, rects) \in RectsType
         /\ WriteRects(old, rects).len = Len(rects)
         /\ \A i \in 1..Len(rects) : WriteRects(old, rects).data[i] = rects[i]
<1>1. old.len \in 0..MaxRects /\ old.data \in [1..MaxRects -> Rect]
  BY DEF RectsType
<1> DEFINE n == Len(rects)
           len == old.len
<1>2. WriteLen(len, n) = n
  <2>1. len \in Nat /\ len < Word /\ n \in Nat /\ n < Word /\ Word \in Nat /\ Word # 0
    BY <1>1, Constants
  <2>2. len \div Word = 0 /\ n % Word = n
    BY <2>1
  <2> HIDE DEF n, len
  <2> QED
    BY <2>1, <2>2 DEF WriteLen, AsU32
<1> DEFINE data == [i \in 1..MaxRects |-> IF i <= n THEN rects[i] ELSE old.data[i]]
<1>3. data \in [1..MaxRects -> Rect] /\ \A i \in 1..n : data[i] = rects[i]
  BY <1>1, Constants
<1>4. WriteRects(old, rects) = [data |-> data, len |-> n]
  BY <1>2 DEF WriteRects
<1>5. n \in 0..MaxRects
  BY Constants
<1> HIDE DEF data, n
<1> QED
  BY <1>3, <1>4, <1>5 DEF RectsType, n

\* Then rects() returns them, from the first to the last.
LEMMA RectsRead ==
  ASSUME NEW b, b.rects \in RectsType, NEW rects \in Seq(Rect), b.rects.len = Len(rects),
         \A i \in 1..Len(rects) : b.rects.data[i] = rects[i], NEW p, Within(p, rects)
  PROVE  Within(p, Rects(b))
<1>1. PICK i \in 1..Len(rects) : Inside(p, rects[i])
  BY DEF Within
<1> DEFINE data == b.rects.data
<1>2. data \in Seq(Rect) /\ Len(data) = MaxRects /\ b.rects.len <= MaxRects
  <2>1. data \in [1..MaxRects -> Rect] /\ b.rects.len <= MaxRects
    BY DEF RectsType
  <2> HIDE DEF data
  <2>2. data \in Seq(Rect)
    BY <2>1, Constants, SeqDef
  <2> QED
    BY <2>1, <2>2, Constants
<1>3. Rects(b) = SubSeq(data, 1, Len(rects))
  BY DEF Rects
<1> HIDE DEF data
<1>4. i \in DOMAIN Rects(b) /\ Rects(b)[i] = data[i]
  BY <1>2, <1>3
<1>5. data[i] = rects[i]
  BY DEF data
<1> QED
  BY <1>1, <1>4, <1>5 DEF Within

\* What a grab does to the buffer of its request, and all it does.
GrabFrame(u) ==
  /\ u \in DOMAIN buffers /\ u # None /\ bufferToUpdate = u
  /\ buffers[u].version \in Version /\ buffers[u].version # MaxVersion
  /\ DOMAIN buffers' = DOMAIN buffers /\ DOMAIN memory' = DOMAIN memory
  /\ DOMAIN shown' = DOMAIN shown /\ DOMAIN seen' = DOMAIN seen
  /\ \A i \in DOMAIN buffers : i # u => Same(i)
  /\ buffers'[u] \in BufferType
  /\ buffers'[u].version = MarkUpdated(buffers[u].version)
  /\ buffers'[u].width = buffers[u].width /\ buffers'[u].height = buffers[u].height
  /\ buffers'[u].stride = buffers[u].stride
  /\ buffers'[u].pixel_format = buffers[u].pixel_format
  /\ seen'[u] = seen[u] \cup {<<buffers'[u].version, memory'[u]>>}
  /\ updating' = None /\ UNCHANGED <<mode, screen, picture, registered, bufferToUpdate>>

GrabWrites(u) ==
  /\ Fits(registered[u], mode)
  /\ memory'[u] = Drawn(memory[u], registered[u])
  /\ shown'[u] = [p \in DOMAIN shown[u] |-> IF Within(p, dirty) THEN screen[p] ELSE shown[u][p]]
  /\ \A p : Within(p, dirty) => Within(p, Rects(buffers'[u]))
  /\ dirty' = <<>> /\ takers' = takers \cup {u}

GrabFails(u) ==
  memory'[u] = memory[u] /\ shown'[u] = shown[u] /\ UNCHANGED <<dirty, takers>>

LEMMA GrabEffect ==
  ASSUME BufferInv, Grab
  PROVE  \E u \in Ids : GrabFrame(u) /\ (GrabWrites(u) \/ GrabFails(u))
<1>1. PICK u \in Ids : u = updating
  BY DEF Grab, BufferInv, TypeOK
<1> DEFINE b == buffers[u]
<1>2. /\ u \in DOMAIN buffers /\ u # None /\ bufferToUpdate = u
      /\ b \in BufferType /\ b.version # MaxVersion
      /\ DOMAIN memory = DOMAIN buffers /\ DOMAIN registered = DOMAIN buffers
      /\ DOMAIN shown = DOMAIN buffers /\ DOMAIN seen = DOMAIN buffers
      /\ registered[u].buffer = u
      /\ dirty \in Seq(Rect) /\ Len(dirty) <= MaxRects
  BY <1>1, Constants DEF Grab, BufferInv, Held, Lent, TypeOK, Sys
<1>3. PICK rects \in {dirty, <<>>} :
        /\ buffers' = [buffers EXCEPT ![u].rects = WriteRects(@, rects),
                                      ![u].version = MarkUpdated(@)]
        /\ \/ /\ rects = dirty /\ Writes
              /\ LET r == registered[bufferToUpdate] IN
                   /\ memory' = [memory EXCEPT ![r.buffer] = Drawn(@, r)]
                   /\ shown' = [shown EXCEPT ![r.buffer] =
                                   [p \in DOMAIN @ |-> IF Within(p, dirty) THEN screen[p] ELSE @[p]]]
              /\ dirty' = <<>> /\ takers' = takers \cup {u}
           \/ UNCHANGED <<memory, shown, dirty, takers>>
  BY <1>1 DEF Grab
<1>4. rects \in Seq(Rect) /\ Len(rects) <= MaxRects
  <2>1. rects = dirty \/ rects = <<>>
    OBVIOUS
  <2>2. <<>> \in Seq(Rect) /\ Len(<<>>) = 0
    BY EmptySeq
  <2>3. CASE rects = dirty
    BY <1>2, <2>3
  <2>4. CASE rects = <<>>
    <3>1. 0 <= MaxRects
      BY Constants
    <3> QED
      BY <2>2, <2>4, <3>1
  <2> QED
    BY <2>1, <2>3, <2>4
<1>5. b.rects \in RectsType /\ b.version \in Version
  BY <1>2 DEF BufferType, RectsType
<1> DEFINE w == WriteRects(b.rects, rects)
<1>6. /\ w \in RectsType /\ w.len = Len(rects)
      /\ \A i \in 1..Len(rects) : w.data[i] = rects[i]
  BY <1>4, <1>5, RectsWritten
<1>7. MarkUpdated(b.version) \in Version
  BY <1>2, <1>5, NextVersion DEF Version
<1> HIDE DEF w
<1>8. buffers'[u] = [b EXCEPT !.rects = w, !.version = MarkUpdated(b.version)]
  BY <1>2, <1>3 DEF w
<1>9. /\ buffers'[u] \in BufferType /\ buffers'[u].rects = w
      /\ buffers'[u].version = MarkUpdated(b.version)
      /\ buffers'[u].width = b.width /\ buffers'[u].height = b.height
      /\ buffers'[u].stride = b.stride /\ buffers'[u].pixel_format = b.pixel_format
  <2> HIDE DEF b
  <2> QED
    BY <1>2, <1>6, <1>7, <1>8 DEF BufferType, RectsType
<1>10. /\ DOMAIN buffers' = DOMAIN buffers
       /\ \A i \in DOMAIN buffers : i # u => buffers'[i] = buffers[i]
  BY <1>3
<1>11. /\ DOMAIN memory' = DOMAIN memory /\ DOMAIN shown' = DOMAIN shown
       /\ \A i \in DOMAIN buffers : i # u => memory'[i] = memory[i] /\ shown'[i] = shown[i]
  BY <1>2, <1>3
<1>12. /\ DOMAIN seen' = DOMAIN seen
       /\ \A i \in DOMAIN buffers : i # u => seen'[i] = seen[i]
       /\ seen'[u] = seen[u] \cup {<<buffers'[u].version, memory'[u]>>}
       /\ updating' = None /\ UNCHANGED <<mode, screen, picture, registered, bufferToUpdate>>
  BY <1>1, <1>2 DEF Grab
<1>13. GrabFrame(u)
  BY <1>2, <1>5, <1>9, <1>10, <1>11, <1>12 DEF GrabFrame, Same
<1>14. GrabWrites(u) \/ GrabFails(u)
  <2>1. CASE UNCHANGED <<memory, shown, dirty, takers>>
    BY <2>1 DEF GrabFails
  <2>2. CASE /\ rects = dirty /\ Writes
             /\ LET r == registered[bufferToUpdate] IN
                  /\ memory' = [memory EXCEPT ![r.buffer] = Drawn(@, r)]
                  /\ shown' = [shown EXCEPT ![r.buffer] =
                                  [p \in DOMAIN @ |-> IF Within(p, dirty) THEN screen[p] ELSE @[p]]]
             /\ dirty' = <<>> /\ takers' = takers \cup {u}
    <3>1. Fits(registered[u], mode)
      BY <1>2, <2>2 DEF Writes
    <3>2. memory'[u] = Drawn(memory[u], registered[u])
      BY <1>2, <2>2
    <3>3. shown'[u] = [p \in DOMAIN shown[u] |-> IF Within(p, dirty) THEN screen[p] ELSE shown[u][p]]
      BY <1>2, <2>2
    <3>4. ASSUME NEW p, Within(p, dirty) PROVE Within(p, Rects(buffers'[u]))
      BY <1>4, <1>6, <1>9, <2>2, <3>4, RectsRead
    <3> QED
      BY <2>2, <3>1, <3>2, <3>3, <3>4 DEF GrabWrites
  <2> QED
    BY <1>3, <2>1, <2>2
<1> QED
  BY <1>13, <1>14

LEMMA GrabType ==
  ASSUME BufferInv, NEW u \in Ids, GrabFrame(u), GrabWrites(u) \/ GrabFails(u)
  PROVE  TypeOK'
<1> DEFINE b == buffers[u]
<1>1. /\ u \in DOMAIN buffers /\ DOMAIN buffers' = DOMAIN buffers
      /\ DOMAIN shown' = DOMAIN buffers' /\ DOMAIN seen' = DOMAIN buffers'
      /\ updating' = None /\ UNCHANGED <<mode, screen, picture, bufferToUpdate>>
      /\ buffers'[u].width = b.width /\ buffers'[u].height = b.height
  BY DEF GrabFrame, BufferInv, TypeOK
<1>2. shown'[u] \in [Grid(b.width, b.height) -> 0..MaxPictures]
  <2>1. CASE GrabFails(u)
    BY <1>1, <2>1 DEF GrabFails, BufferInv, TypeOK
  <2>2. CASE GrabWrites(u)
    <3>1. DOMAIN shown[u] = DOMAIN screen
      <4>1. b.width = mode.width /\ b.height = mode.height
        BY <1>1, <2>2, FitShape DEF GrabWrites, BufferInv, TypeOK
      <4> QED
        BY <1>1, <4>1 DEF BufferInv, TypeOK
    <3>2. \A p \in DOMAIN screen : screen[p] \in 0..MaxPictures
      BY Constants DEF BufferInv, TypeOK
    <3>3. shown[u] \in [Grid(b.width, b.height) -> 0..MaxPictures]
      BY <1>1 DEF BufferInv, TypeOK
    <3>4. shown'[u] = [p \in DOMAIN shown[u] |-> IF Within(p, dirty) THEN screen[p] ELSE shown[u][p]]
      BY <2>2 DEF GrabWrites
    <3> HIDE DEF b
    <3> QED
      BY <3>1, <3>2, <3>3, <3>4
  <2> QED
    BY <2>1, <2>2
<1>3. BufferOK(u)'
  <2>1. buffers'[u] \in BufferType /\ buffers'[u].version \in Version
    BY DEF GrabFrame, BufferType
  <2>2. \A p \in seen'[u] : p[1] \in Version
    <3> DEFINE q == <<buffers'[u].version, memory'[u]>>
    <3>1. seen'[u] = seen[u] \cup {q} /\ q[1] = buffers'[u].version
      BY DEF GrabFrame
    <3>2. \A p \in seen[u] : p[1] \in Version
      BY <1>1 DEF BufferInv, TypeOK
    <3> HIDE DEF q
    <3> QED
      BY <2>1, <3>1, <3>2
  <2> QED
    BY <1>1, <1>2, <2>1, <2>2 DEF BufferOK
<1>4. ASSUME NEW i \in DOMAIN buffers, i # u PROVE BufferOK(i)'
  BY <1>4 DEF GrabFrame, Same, BufferOK, BufferInv, TypeOK
<1>5. /\ dirty' \in Seq(Rect) /\ Len(dirty') <= MaxRects
      /\ takers' \subseteq DOMAIN buffers' \cup {None}
  <2>1. CASE GrabFails(u)
    BY <1>1, <2>1 DEF GrabFails, BufferInv, TypeOK
  <2>2. CASE GrabWrites(u)
    <3>1. dirty' \in Seq(Rect) /\ Len(dirty') = 0
      BY <2>2, EmptySeq DEF GrabWrites
    <3>2. takers' \subseteq DOMAIN buffers' \cup {None}
      BY <1>1, <2>2 DEF GrabWrites, BufferInv, TypeOK
    <3>3. 0 <= MaxRects
      BY Constants
    <3> QED
      BY <3>1, <3>2, <3>3
  <2> QED
    BY <2>1, <2>2
<1>6. \A i \in DOMAIN buffers' : BufferOK(i)'
  BY <1>1, <1>3, <1>4
<1> HIDE DEF b
<1> QED
  BY <1>1, <1>5, <1>6 DEF BufferInv, TypeOK, BufferOK, Allowed, Version

\* The bytes change, their number does not.
LEMMA GrabLent ==
  ASSUME BufferInv, NEW u \in Ids, GrabFrame(u), GrabWrites(u) \/ GrabFails(u)
  PROVE  Lent'
<1> DEFINE b == buffers[u]
           n == b.height * b.stride
<1>1. /\ u \in DOMAIN buffers /\ DOMAIN buffers' = DOMAIN buffers
      /\ DOMAIN memory' = DOMAIN buffers' /\ DOMAIN registered' = DOMAIN buffers'
      /\ registered' = registered
      /\ buffers'[u].width = b.width /\ buffers'[u].height = b.height
      /\ buffers'[u].stride = b.stride
  BY DEF GrabFrame, BufferInv, Lent
<1>2. memory[u] = [k \in 1..n |-> memory[u][k]] /\ registered[u] = Sys(u, b)
  BY <1>1 DEF BufferInv, Lent
<1>3. memory'[u] = [k \in 1..n |-> memory'[u][k]]
  <2>1. CASE GrabFails(u)
    BY <1>2, <2>1 DEF GrabFails
  <2>2. CASE GrabWrites(u)
    <3>1. DOMAIN memory[u] = 1..n
      BY <1>2
    <3> HIDE DEF n, b
    <3> QED
      BY <2>2, <3>1 DEF GrabWrites, Drawn
  <2> QED
    BY <2>1, <2>2
<1>4. Sys(u, buffers'[u]) = Sys(u, b)
  BY <1>1 DEF Sys
<1>5. ASSUME NEW i \in DOMAIN buffers'
      PROVE  LET c == buffers'[i] IN
             /\ registered'[i] = Sys(i, c)
             /\ memory'[i] = [k \in 1..(c.height * c.stride) |-> memory'[i][k]]
  <2>1. CASE i = u
    BY <1>1, <1>2, <1>3, <1>4, <2>1
  <2>2. CASE i # u
    BY <1>1, <2>2 DEF GrabFrame, Same, BufferInv, Lent
  <2> QED
    BY <2>1, <2>2
<1> QED
  BY <1>1, <1>5 DEF Lent

LEMMA GrabSeen ==
  ASSUME BufferInv, NEW u \in Ids, GrabFrame(u)
  PROVE  Past' /\ VersionTellsChange'
<1> DEFINE v == buffers[u].version
           w == buffers'[u].version
           q == <<w, memory'[u]>>
<1>1. /\ u \in DOMAIN buffers /\ DOMAIN buffers' = DOMAIN buffers
      /\ v \in Version /\ v # MaxVersion /\ w = MarkUpdated(v)
      /\ \A i \in DOMAIN buffers : i # u => buffers'[i] = buffers[i] /\ seen'[i] = seen[i]
  BY DEF GrabFrame, Same
<1>2. seen'[u] = seen[u] \cup {q} /\ q[1] = w
  BY DEF GrabFrame
<1>3. w \in 0..MaxVersion /\ (v # None => v \in 0..MaxVersion /\ w = v + 1)
  BY <1>1, NextVersion
<1>4. w # None
  BY <1>3, Constants
<1>5. \A p \in seen[u] : p[1] = None \/ (v # None /\ p[1] \in 0..v)
  BY <1>1 DEF BufferInv, Past
<1> HIDE DEF v, w, q
<1>6. \A p \in seen[u] : p[1] # w
  BY <1>3, <1>4, <1>5
<1>7. Past'
  <2>1. ASSUME NEW p \in seen'[u] PROVE p[1] = None \/ p[1] \in 0..w
    <3>1. CASE p = q
      BY <1>2, <1>3, <3>1
    <3>2. CASE p \in seen[u]
      BY <1>3, <1>5, <3>2
    <3> QED
      BY <1>2, <3>1, <3>2
  <2> QED
    BY <1>1, <1>4, <2>1 DEF BufferInv, Past, w
<1>8. VersionTellsChange'
  <2>1. ASSUME NEW p \in seen'[u], NEW o \in seen'[u]
        PROVE  /\ p[1] = o[1] => p[2] = o[2]
               /\ p[1] = None => \A k \in DOMAIN p[2] : p[2][k] = Blank
    BY <1>1, <1>2, <1>4, <1>6 DEF BufferInv, VersionTellsChange
  <2> QED
    BY <1>1, <2>1 DEF BufferInv, VersionTellsChange
<1> QED
  BY <1>7, <1>8

LEMMA GrabSole ==
  ASSUME BufferInv, NEW u \in Ids, GrabFrame(u), GrabWrites(u) \/ GrabFails(u)
  PROVE  Fresh' /\ SoleBufferCurrent'
<1>1. /\ u \in DOMAIN buffers /\ DOMAIN buffers' = DOMAIN buffers /\ screen' = screen
      /\ \A i \in DOMAIN buffers : i # u => shown'[i] = shown[i]
  BY DEF GrabFrame, Same
<1>2. CASE GrabFails(u)
  <2>1. \A i \in DOMAIN buffers : shown'[i] = shown[i]
    BY <1>1, <1>2 DEF GrabFails
  <2> QED
    BY <1>1, <1>2, <2>1 DEF GrabFails, BufferInv, Fresh, SoleBufferCurrent
<1>3. CASE GrabWrites(u)
  <2>1. Fresh'
    BY <1>3 DEF GrabWrites, Fresh
  <2>2. DOMAIN shown[u] = DOMAIN screen
    <3>1. buffers[u].width = mode.width /\ buffers[u].height = mode.height
      BY <1>1, <1>3, FitShape DEF GrabWrites, BufferInv, TypeOK
    <3> QED
      BY <1>1, <3>1 DEF BufferInv, TypeOK
  <2>3. ASSUME NEW i \in DOMAIN buffers, takers' \subseteq {i}, NEW p \in DOMAIN screen
        PROVE  shown'[i][p] = screen[p]
    <3>1. i = u /\ takers \subseteq {u}
      BY <1>3, <2>3 DEF GrabWrites
    <3>2. Within(p, dirty) \/ shown[u][p] = screen[p]
      BY <1>1, <3>1 DEF BufferInv, SoleBufferCurrent
    <3> QED
      BY <1>3, <2>2, <3>1, <3>2 DEF GrabWrites
  <2> QED
    BY <1>1, <2>1, <2>3 DEF SoleBufferCurrent
<1> QED
  BY <1>2, <1>3

LEMMA GrabInv == ASSUME BufferInv, Grab PROVE BufferInv'
<1>1. PICK u \in Ids : GrabFrame(u) /\ (GrabWrites(u) \/ GrabFails(u))
  BY GrabEffect
<1>2. Held'
  BY <1>1 DEF GrabFrame, Held
<1> QED
  BY <1>1, <1>2, GrabType, GrabLent, GrabSeen, GrabSole DEF BufferInv

-----------------------------------------------------------------------------
(* The other steps.                                                        *)

\* Steps that leave the map, the memory and the registrations alone.
LEMMA QuietInv ==
  ASSUME BufferInv, TypeOK', Held', Fresh', SoleBufferCurrent',
         UNCHANGED <<buffers, memory, registered, shown, seen>>
  PROVE  BufferInv'
BY DEF BufferInv, Lent, Past, VersionTellsChange

\* The rects still tell all that a sole buffer lacks: the area is one of them, or
\* all of the frame buffer is.
LEMMA DrawInv ==
  ASSUME BufferInv, NEW area \in Areas, Draw(area)
  PROVE  BufferInv'
<1>1. /\ picture' = picture + 1 /\ picture < MaxPictures
      /\ screen' = [p \in DOMAIN screen |-> IF Inside(p, area) THEN picture' ELSE screen[p]]
      /\ dirty' = IF Len(dirty) < MaxRects THEN Append(dirty, area) ELSE <<All(mode)>>
      /\ UNCHANGED <<mode, buffers, memory, registered, shown, seen, bufferToUpdate, updating, takers>>
  BY DEF Draw, bufferVars
<1>2. /\ mode \in Allowed /\ dirty \in Seq(Rect) /\ Len(dirty) <= MaxRects
      /\ picture \in 1..MaxPictures /\ screen \in [Grid(mode.width, mode.height) -> 1..MaxPictures]
  BY DEF BufferInv, TypeOK
<1>3. area \in Rect /\ All(mode) \in Rect
  BY <1>2, Constants, AllRect
<1>4. /\ dirty' \in Seq(Rect) /\ Len(dirty') <= MaxRects
      /\ \A p \in DOMAIN screen : Within(p, dirty) \/ Inside(p, area) => Within(p, dirty')
  <2>1. CASE Len(dirty) < MaxRects
    <3>1. dirty' = Append(dirty, area)
      BY <1>1, <2>1
    <3>2. /\ dirty' \in Seq(Rect) /\ Len(dirty') = Len(dirty) + 1
          /\ \A i \in DOMAIN dirty : i \in DOMAIN dirty' /\ dirty'[i] = dirty[i]
          /\ Len(dirty) + 1 \in DOMAIN dirty' /\ dirty'[Len(dirty) + 1] = area
      BY <1>2, <1>3, <3>1
    <3> QED
      BY <1>2, <2>1, <3>2, Constants DEF Within
  <2>2. CASE ~(Len(dirty) < MaxRects)
    <3>1. dirty' = <<All(mode)>>
      BY <1>1, <2>2
    <3>2. dirty' \in Seq(Rect) /\ Len(dirty') = 1
      BY <1>3, <3>1
    <3>3. \A p \in DOMAIN screen : Within(p, dirty')
      BY <1>2, <3>1, AllPixels
    <3> QED
      BY <3>2, <3>3, Constants
  <2> QED
    BY <2>1, <2>2
<1>5. TypeOK'
  <2>1. picture' \in 1..MaxPictures
    BY <1>1, <1>2, Constants
  <2>2. screen' \in [Grid(mode.width, mode.height) -> 1..MaxPictures]
    BY <1>1, <1>2, <2>1
  <2> QED
    BY <1>1, <1>4, <2>1, <2>2 DEF BufferInv, TypeOK, Allowed, Version
<1>6. Held'
  BY <1>1 DEF BufferInv, Held
<1>7. Fresh'
  BY <1>1, <1>4 DEF BufferInv, Fresh
<1>8. SoleBufferCurrent'
  <2>1. ASSUME NEW id \in DOMAIN buffers, takers \subseteq {id}, NEW p \in DOMAIN screen
        PROVE  Within(p, dirty') \/ shown[id][p] = screen'[p]
    <3>1. Within(p, dirty) \/ shown[id][p] = screen[p]
      BY <2>1 DEF BufferInv, SoleBufferCurrent
    <3> QED
      BY <1>1, <1>4, <3>1
  <2> QED
    BY <1>1, <2>1 DEF SoleBufferCurrent
<1> QED
  BY <1>1, <1>5, <1>6, <1>7, <1>8, QuietInv

LEMMA ChangeModeInv == ASSUME BufferInv, ChangeMode PROVE BufferInv'
<1>1. /\ picture' = picture + 1 /\ picture < MaxPictures /\ mode' \in Allowed
      /\ screen' = [p \in Grid(mode'.width, mode'.height) |-> picture']
      /\ dirty' = <<All(mode')>> /\ takers' = {}
      /\ UNCHANGED <<buffers, memory, registered, shown, seen, bufferToUpdate, updating>>
  BY DEF ChangeMode, bufferVars
<1>2. dirty' \in Seq(Rect) /\ Len(dirty') <= MaxRects
  <2>1. All(mode') \in Rect
    BY <1>1, AllRect
  <2>2. dirty' \in Seq(Rect) /\ Len(dirty') = 1
    BY <1>1, <2>1
  <2> QED
    BY <2>2, Constants
<1>3. \A p \in DOMAIN screen' : Within(p, dirty')
  BY <1>1, AllPixels
<1>4. TypeOK'
  <2>1. picture' \in 1..MaxPictures
    BY <1>1, Constants DEF BufferInv, TypeOK
  <2>2. screen' \in [Grid(mode'.width, mode'.height) -> 1..MaxPictures]
    BY <1>1, <2>1
  <2>3. takers' \subseteq DOMAIN buffers \cup {None}
    BY <1>1
  <2> QED
    BY <1>1, <1>2, <2>1, <2>2, <2>3 DEF BufferInv, TypeOK, Version
<1>5. Held'
  BY <1>1 DEF BufferInv, Held
<1>6. Fresh' /\ SoleBufferCurrent'
  BY <1>3 DEF Fresh, SoleBufferCurrent
<1> QED
  BY <1>1, <1>4, <1>5, <1>6, QuietInv

LEMMA NextInv == BufferInv /\ [Next]_vars => BufferInv'
<1> SUFFICES ASSUME BufferInv, [Next]_vars PROVE BufferInv'
  OBVIOUS
<1>1. ASSUME UNCHANGED <<kernelVars, bufferVars, takers>>, TypeOK', Held' PROVE BufferInv'
  <2>1. UNCHANGED <<mode, screen, picture, dirty, buffers, memory, registered, shown, seen, takers>>
    BY <1>1 DEF kernelVars, bufferVars
  <2>2. Fresh' /\ SoleBufferCurrent'
    BY <2>1 DEF BufferInv, Fresh, SoleBufferCurrent
  <2> QED
    BY <1>1, <2>1, <2>2, QuietInv
<1>2. ASSUME NEW id \in Ids, RequestUpdate(id) PROVE BufferInv'
  <2>1. TypeOK' /\ Held'
    BY <1>2, Constants
       DEF RequestUpdate, kernelVars, bufferVars, BufferInv, TypeOK, Held, Version, Allowed
  <2> QED
    BY <1>1, <1>2, <2>1 DEF RequestUpdate
<1>3. CASE GiveUp
  <2>1. TypeOK' /\ Held'
    BY <1>3, Constants DEF GiveUp, kernelVars, bufferVars, BufferInv, TypeOK, Held, Version, Allowed
  <2> QED
    BY <1>1, <1>3, <2>1 DEF GiveUp
<1>4. CASE UNCHANGED vars
  <2>1. TypeOK' /\ Held'
    BY <1>4 DEF vars, kernelVars, bufferVars, BufferInv, TypeOK, Held, Version, Allowed
  <2> QED
    BY <1>1, <1>4, <2>1 DEF vars
<1> QED
  BY <1>2, <1>3, <1>4, DrawInv, ChangeModeInv, NewBufferInv, UnregisterInv, GrabInv DEF Next

LEMMA Invariance == Spec => []BufferInv
BY InitInv, NextInv, PTL DEF Spec

\* Only a grab changes the bytes of a buffer that stays.
LEMMA OthersKeepBytes ==
  ASSUME BufferInv, [Next]_vars, ~Grab, NEW id \in DOMAIN buffers \cap DOMAIN buffers'
  PROVE  memory'[id] = memory[id]
<1>1. CASE UNCHANGED memory
  BY <1>1
<1>2. ASSUME NEW i \in Ids, NEW m \in Modes, NewBuffer(i, m) PROVE memory'[id] = memory[id]
  BY <1>2, NewBufferMaps DEF Same
<1>3. ASSUME NEW i \in Ids, UnregisterBuffer(i) PROVE memory'[id] = memory[id]
  BY <1>3, UnregisterMaps DEF Same
<1> QED
  BY <1>1, <1>2, <1>3 DEF Next, vars, kernelVars, bufferVars, Draw, ChangeMode, RequestUpdate, GiveUp

LEMMA GrabTells ==
  ASSUME BufferInv, Grab, NEW id \in DOMAIN buffers, memory'[id] # memory[id]
  PROVE  /\ buffers'[id].version # buffers[id].version
         /\ \A k \in DOMAIN memory[id] :
              memory'[id][k] # memory[id][k] =>
                Within(Pixel(k, buffers[id].stride, Depth(mode)), Rects(buffers'[id]))
<1>1. PICK u \in Ids : GrabFrame(u) /\ (GrabWrites(u) \/ GrabFails(u))
  BY GrabEffect
<1>2. u = id /\ GrabWrites(u)
  BY <1>1 DEF GrabFrame, Same, GrabFails
<1>3. buffers'[u].version # buffers[u].version
  BY <1>1, NextVersion DEF GrabFrame
<1>4. registered[u].stride = buffers[u].stride
  BY <1>2, FitShape DEF GrabWrites, BufferInv, TypeOK
<1>5. ASSUME NEW k \in DOMAIN memory[u], memory'[u][k] # memory[u][k]
      PROVE  Within(Pixel(k, buffers[u].stride, Depth(mode)), Rects(buffers'[u]))
  <2>1. Within(Pixel(k, registered[u].stride, Depth(mode)), dirty)
    BY <1>2, <1>5 DEF GrabWrites, Drawn
  <2> QED
    BY <1>2, <1>4, <2>1 DEF GrabWrites
<1> QED
  BY <1>2, <1>3, <1>5

-----------------------------------------------------------------------------
(* Pictures.  Division takes a place in the memory apart into line, column   *)
(* and channel, as chunks_exact does.                                      *)

LEMMA DivMod ==
  ASSUME NEW n \in Nat \ {0}, NEW q \in Nat, NEW r \in Nat, r < n
  PROVE  (q * n + r) \div n = q /\ (q * n + r) % n = r
OBVIOUS

LEMMA DivBounds ==
  ASSUME NEW n \in Nat \ {0}, NEW h \in Nat, NEW a \in Nat, a < h * n
  PROVE  a \div n \in Nat /\ a \div n < h /\ a % n \in Nat /\ a % n < n
OBVIOUS

LEMMA Chunk ==
  ASSUME NEW S, NEW s \in Seq(S), NEW a \in Nat, NEW n \in Nat, a + n <= Len(s)
  PROVE  /\ SubSeq(s, a + 1, a + n) \in Seq(S)
         /\ Len(SubSeq(s, a + 1, a + n)) = n
         /\ \A j \in 1..n : SubSeq(s, a + 1, a + n)[j] = s[a + j]
OBVIOUS

\* A sequence of n, and one of h chunks of n with nothing left over.
Line(s, S, n) == s \in Seq(S) /\ Len(s) = n
Whole(s, S, n, h) == s \in Seq(S) /\ Len(s) = h * n

\* Each byte of the chunks is where it was.
Split(s, n, h) ==
  \A k \in 1..h, j \in 1..n : ChunksExact(s, n)[k][j] = s[(k - 1) * n + j]

LEMMA ChunkPlace ==
  ASSUME NEW n \in Nat, NEW h \in Nat, NEW k \in 1..h
  PROVE  (k - 1) * n \in Nat /\ k * n = (k - 1) * n + n /\ (k - 1) * n + n <= h * n
OBVIOUS

LEMMA ChunkCount ==
  ASSUME NEW S, NEW s, NEW n \in Nat \ {0}, NEW h \in Nat, Whole(s, S, n, h)
  PROVE  DOMAIN ChunksExact(s, n) = 1..h
<1>1. Len(s) = h * n /\ (h * n) \div n = h
  BY DEF Whole
<1> QED
  BY <1>1 DEF ChunksExact

LEMMA ChunkAt ==
  ASSUME NEW S, NEW s, NEW n \in Nat \ {0}, NEW h \in Nat, Whole(s, S, n, h), NEW k \in 1..h
  PROVE  LET a == (k - 1) * n IN
         /\ a \in Nat /\ a + n <= Len(s) /\ s \in Seq(S)
         /\ ChunksExact(s, n)[k] = SubSeq(s, a + 1, a + n)
<1>1. s \in Seq(S) /\ Len(s) = h * n /\ (h * n) \div n = h
  BY DEF Whole
<1>2. (k - 1) * n \in Nat /\ k * n = (k - 1) * n + n /\ (k - 1) * n + n <= h * n
  BY ChunkPlace
<1>3. ChunksExact(s, n)[k] = SubSeq(s, (k - 1) * n + 1, k * n)
  BY <1>1 DEF ChunksExact
<1> QED
  BY <1>1, <1>2, <1>3

LEMMA ChunkLine ==
  ASSUME NEW S, NEW s, NEW n \in Nat \ {0}, NEW h \in Nat, Whole(s, S, n, h), NEW k \in 1..h
  PROVE  Line(ChunksExact(s, n)[k], S, n)
<1> DEFINE a == (k - 1) * n
<1>1. /\ a \in Nat /\ a + n <= Len(s) /\ s \in Seq(S)
      /\ ChunksExact(s, n)[k] = SubSeq(s, a + 1, a + n)
  BY ChunkAt
<1> HIDE DEF a
<1> QED
  BY <1>1, Chunk DEF Line

LEMMA ChunkBytes ==
  ASSUME NEW S, NEW s, NEW n \in Nat \ {0}, NEW h \in Nat, Whole(s, S, n, h)
  PROVE  Split(s, n, h)
<1>1. ASSUME NEW k \in 1..h
      PROVE  \A j \in 1..n : ChunksExact(s, n)[k][j] = s[(k - 1) * n + j]
  <2> DEFINE a == (k - 1) * n
  <2>1. /\ a \in Nat /\ a + n <= Len(s) /\ s \in Seq(S)
        /\ ChunksExact(s, n)[k] = SubSeq(s, a + 1, a + n)
    BY ChunkAt
  <2> HIDE DEF a
  <2>2. \A j \in 1..n : SubSeq(s, a + 1, a + n)[j] = s[a + j]
    BY <2>1, Chunk
  <2> QED
    BY <2>1, <2>2 DEF a
<1> QED
  BY <1>1 DEF Split

\* The pixels of a line, which has as many bytes as they need.
Pixels(line, w) == ChunksExact(SubSeq(line, 1, w * 4), 4)

LEMMA PixelRow ==
  ASSUME NEW S, NEW line, NEW w \in Nat, Line(line, S, w * 4)
  PROVE  /\ Whole(SubSeq(line, 1, w * 4), S, 4, w)
         /\ \A j \in 1..(w * 4) : SubSeq(line, 1, w * 4)[j] = line[j]
<1>1. line \in Seq(S) /\ Len(line) = w * 4 /\ w * 4 \in Nat /\ 0 + w * 4 = w * 4
  BY DEF Line
<1>2. /\ SubSeq(line, 0 + 1, 0 + w * 4) \in Seq(S)
      /\ Len(SubSeq(line, 0 + 1, 0 + w * 4)) = w * 4
      /\ \A j \in 1..(w * 4) : SubSeq(line, 0 + 1, 0 + w * 4)[j] = line[0 + j]
  BY <1>1, Chunk
<1> QED
  BY <1>1, <1>2 DEF Whole

LEMMA PixelCount ==
  ASSUME NEW S, NEW line, NEW w \in Nat, Line(line, S, w * 4)
  PROVE  DOMAIN Pixels(line, w) = 1..w
<1>1. Whole(SubSeq(line, 1, w * 4), S, 4, w)
  BY PixelRow
<1> QED
  BY <1>1, ChunkCount DEF Pixels

LEMMA PixelByte ==
  ASSUME NEW S, NEW line, NEW w \in Nat, Line(line, S, w * 4), NEW x \in 1..w, NEW c \in 1..4
  PROVE  Pixels(line, w)[x][c] = line[(x - 1) * 4 + c]
<1> DEFINE row == SubSeq(line, 1, w * 4)
<1>1. Whole(row, S, 4, w)
  BY PixelRow
<1>2. \A j \in 1..(w * 4) : row[j] = line[j]
  BY PixelRow
<1> HIDE DEF row
<1>3. ChunksExact(row, 4)[x][c] = row[(x - 1) * 4 + c]
  <2>1. Split(row, 4, w)
    BY <1>1, ChunkBytes
  <2> QED
    BY <2>1 DEF Split
<1>4. (x - 1) * 4 + c \in 1..(w * 4)
  OBVIOUS
<1> QED
  BY <1>2, <1>3, <1>4 DEF Pixels, row

\* What debug_write_to_ppm makes of a line.
LEMMA PpmLines ==
  ASSUME NEW b, NEW bytes
  PROVE  LET lines == ChunksExact(bytes, b.stride) IN
         Ppm(b, bytes) = [y \in DOMAIN lines |-> [x \in DOMAIN Pixels(lines[y], b.width) |->
                            << Pixels(lines[y], b.width)[x][3], Pixels(lines[y], b.width)[x][2],
                               Pixels(lines[y], b.width)[x][1] >>]]
BY DEF Ppm, Pixels

\* Where it finds the bytes of a pixel.
Found(bytes, w, h, n) ==
  /\ DOMAIN ChunksExact(bytes, n) = 1..h
  /\ \A y \in 1..h : LET line == ChunksExact(bytes, n)[y] IN
       /\ DOMAIN Pixels(line, w) = 1..w
       /\ \A x \in 1..w, c \in 1..4 :
            Pixels(line, w)[x][c] = bytes[(y - 1) * n + ((x - 1) * 4 + c)]

LEMMA PpmBytes ==
  ASSUME NEW S, NEW bytes, NEW w \in Nat, NEW h \in Nat, NEW n \in Nat \ {0}, n = w * 4,
         Whole(bytes, S, n, h)
  PROVE  Found(bytes, w, h, n)
<1>1. DOMAIN ChunksExact(bytes, n) = 1..h
  BY ChunkCount
<1>2. ASSUME NEW y \in 1..h
      PROVE  LET line == ChunksExact(bytes, n)[y] IN
             /\ DOMAIN Pixels(line, w) = 1..w
             /\ \A x \in 1..w, c \in 1..4 :
                  Pixels(line, w)[x][c] = bytes[(y - 1) * n + ((x - 1) * 4 + c)]
  <2> DEFINE line == ChunksExact(bytes, n)[y]
  <2>1. Line(line, S, w * 4)
    BY ChunkLine
  <2>2. \A j \in 1..n : line[j] = bytes[(y - 1) * n + j]
    <3>1. Split(bytes, n, h)
      BY ChunkBytes
    <3> QED
      BY <3>1 DEF Split
  <2> HIDE DEF line
  <2>3. DOMAIN Pixels(line, w) = 1..w
    BY <2>1, PixelCount
  <2>4. ASSUME NEW x \in 1..w, NEW c \in 1..4
        PROVE  Pixels(line, w)[x][c] = bytes[(y - 1) * n + ((x - 1) * 4 + c)]
    <3>1. Pixels(line, w)[x][c] = line[(x - 1) * 4 + c]
      BY <2>1, PixelByte
    <3>2. (x - 1) * 4 + c \in 1..n
      OBVIOUS
    <3> QED
      BY <2>2, <3>1, <3>2
  <2> QED
    BY <2>3, <2>4 DEF line
<1> QED
  BY <1>1, <1>2 DEF Found

\* A buffer of four bytes a pixel, and the bytes in it: at each place those of the
\* picture last copied there, however many updates ago.
Painted(id) ==
  LET b == buffers[id] IN
  b.width > 0 /\ b.stride = 4 * b.width =>
    \A k \in 1..(b.height * b.stride) :
      LET p == Pixel(k, b.stride, 4) IN
      memory[id][k] = IF shown[id][p] = 0 THEN Blank
                      ELSE <<shown[id][p], p[1], p[2], Channel(k, b.stride, 4)>>

PaintInv == \A id \in DOMAIN buffers : Painted(id)

\* What Painted looks at of one buffer.
paintVars(id) == <<buffers[id].width, buffers[id].height, buffers[id].stride,
                   memory[id], shown[id]>>

LEMMA PaintQuiet ==
  ASSUME NEW id, Painted(id), paintVars(id)' = paintVars(id)
  PROVE  Painted(id)'
BY DEF Painted, paintVars

LEMMA PaintSame ==
  ASSUME PaintInv, NEW id \in DOMAIN buffers, Same(id)
  PROVE  Painted(id)'
<1>1. Painted(id) /\ paintVars(id)' = paintVars(id)
  BY DEF PaintInv, Same, paintVars
<1> QED
  BY <1>1, PaintQuiet

\* Every byte is in a pixel of the buffer.
LEMMA PixelInGrid ==
  ASSUME NEW w \in Nat, w > 0, NEW h \in Nat, NEW s, s = 4 * w, NEW k \in 1..(h * s)
  PROVE  Pixel(k, s, 4) \in Grid(w, h)
<1>1. s \in Nat \ {0}
  OBVIOUS
<1>2. k - 1 \in Nat /\ k - 1 < h * s
  BY <1>1
<1>3. /\ (k - 1) \div s \in Nat /\ (k - 1) \div s < h
      /\ (k - 1) % s \in Nat /\ (k - 1) % s < s
  <2> DEFINE a == k - 1
  <2> HIDE DEF a
  <2>1. a \in Nat /\ a < h * s
    BY <1>2 DEF a
  <2>2. /\ a \div s \in Nat /\ a \div s < h /\ a % s \in Nat /\ a % s < s
    BY <1>1, <2>1, DivBounds
  <2> QED
    BY <2>2 DEF a
<1>4. ((k - 1) % s) \div 4 \in 0..w-1
  <2> DEFINE a == (k - 1) % s
  <2> HIDE DEF a
  <2>1. a \in Nat /\ a < 4 * w
    BY <1>3 DEF a
  <2>2. a \div 4 \in 0..w-1
    BY <2>1
  <2> QED
    BY <2>2 DEF a
<1>5. (k - 1) \div s \in 0..h-1
  BY <1>3
<1> QED
  BY <1>4, <1>5 DEF Pixel, Grid

LEMMA NewBufferPaint ==
  ASSUME BufferInv, PaintInv, NEW id \in Ids, NEW m \in Modes, NewBuffer(id, m)
  PROVE  PaintInv'
<1> DEFINE w == m.width
           h == m.height
           s == Stride(m)
<1>1. /\ DOMAIN buffers' = DOMAIN buffers \cup {id} /\ \A i \in DOMAIN buffers : Same(i)
      /\ buffers'[id].width = w /\ buffers'[id].height = h /\ buffers'[id].stride = s
      /\ shown'[id] = [p \in Grid(w, h) |-> 0] /\ memory'[id] = [k \in 1..(h * s) |-> Blank]
  <2>1. /\ DOMAIN buffers' = DOMAIN buffers \cup {id} /\ \A i \in DOMAIN buffers : Same(i)
        /\ buffers'[id] = New(m) /\ memory'[id] = Allocate(m)
        /\ shown'[id] = [p \in Grid(w, h) |-> 0]
    BY NewBufferMaps
  <2>2. New(m).width = w /\ New(m).height = h /\ New(m).stride = s
    BY DEF New
  <2>3. Allocate(m) = [k \in 1..(h * s) |-> Blank]
    BY DEF Allocate, Bytes
  <2> HIDE DEF w, h, s
  <2> QED
    BY <2>1, <2>2, <2>3
<1>2. w \in Nat /\ h \in Nat
  BY ModeType, Constants
<1> HIDE DEF w, h, s
<1>3. Painted(id)'
  <2>1. ASSUME w > 0, s = 4 * w, NEW k \in 1..(h * s)
        PROVE  memory'[id][k] = Blank /\ shown'[id][Pixel(k, s, 4)] = 0
    BY <1>1, <1>2, <2>1, PixelInGrid
  <2> QED
    BY <1>1, <2>1 DEF Painted
<1> QED
  BY <1>1, <1>3, PaintSame DEF PaintInv

\* A buffer that the kernel writes to has the shape of the frame buffer, so its
\* pixels have the depth of the frame buffer's, whatever format that has; what is
\* not in the dirty rects is as it was, in the memory and in the picture.
LEMMA GrabPaint == ASSUME BufferInv, PaintInv, Grab PROVE PaintInv'
<1>1. PICK u \in Ids : GrabFrame(u) /\ (GrabWrites(u) \/ GrabFails(u))
  BY GrabEffect
<1> DEFINE b == buffers[u]
           w == b.width
           h == b.height
           s == b.stride
<1>2. /\ u \in DOMAIN buffers /\ DOMAIN buffers' = DOMAIN buffers
      /\ buffers'[u].width = w /\ buffers'[u].height = h /\ buffers'[u].stride = s
      /\ \A i \in DOMAIN buffers : i # u => Same(i)
  BY <1>1 DEF GrabFrame
<1>3. /\ w \in Nat /\ h \in Nat /\ s \in Nat
      /\ shown[u] \in [Grid(w, h) -> 0..MaxPictures]
      /\ DOMAIN memory[u] = 1..(h * s)
  <2>1. w \in 0..Word-1 /\ h \in 0..Word-1 /\ s \in 0..Word-1
    BY <1>2 DEF BufferInv, TypeOK, BufferType
  <2>2. shown[u] \in [Grid(w, h) -> 0..MaxPictures]
    BY <1>2 DEF BufferInv, TypeOK
  <2>3. DOMAIN memory[u] = 1..(h * s)
    BY <1>2 DEF BufferInv, Lent
  <2> HIDE DEF w, h, s
  <2> QED
    BY <2>1, <2>2, <2>3, Constants
<1>4. Painted(u)
  BY <1>2 DEF PaintInv
<1>5. CASE GrabFails(u)
  <2>1. Painted(u)'
    BY <1>2, <1>4, <1>5, PaintQuiet DEF GrabFails, paintVars
  <2> QED
    BY <1>2, <2>1, PaintSame DEF PaintInv
<1>6. CASE GrabWrites(u)
  <2>1. /\ registered[u].stride = s /\ s = Depth(mode) * w
        /\ Depth(mode) \in Nat
        /\ DOMAIN shown[u] = DOMAIN screen
        /\ \A p \in DOMAIN screen : screen[p] # 0
    <3>1. /\ registered[u].stride = s /\ w = mode.width /\ h = mode.height
          /\ s = Depth(mode) * mode.width
      BY <1>2, <1>6, FitShape DEF GrabWrites, BufferInv, TypeOK
    <3>2. screen \in [Grid(mode.width, mode.height) -> 1..MaxPictures] /\ mode \in Allowed
      BY DEF BufferInv, TypeOK
    <3> HIDE DEF w, h, s
    <3> QED
      BY <1>3, <3>1, <3>2, SysMode
  <2>2. memory'[u] = Drawn(memory[u], registered[u])
    BY <1>6 DEF GrabWrites
  <2>3. shown'[u] = [p \in DOMAIN shown[u] |-> IF Within(p, dirty) THEN screen[p] ELSE shown[u][p]]
    BY <1>6 DEF GrabWrites
  <2>4. ASSUME w > 0, s = 4 * w, NEW k \in 1..(h * s), NEW p, p = Pixel(k, s, 4)
        PROVE  memory'[u][k] = IF shown'[u][p] = 0 THEN Blank
                               ELSE <<shown'[u][p], p[1], p[2], Channel(k, s, 4)>>
    <3>1. memory[u][k] = IF shown[u][p] = 0 THEN Blank
                         ELSE <<shown[u][p], p[1], p[2], Channel(k, s, 4)>>
      BY <1>4, <2>4 DEF Painted
    <3> HIDE DEF w, h, s
    <3>2. Depth(mode) = 4
      <4> DEFINE d == Depth(mode)
      <4>1. d \in Nat /\ d * w = 4 * w /\ w \in Nat /\ w > 0
        BY <1>3, <2>1, <2>4
      <4> HIDE DEF d
      <4>2. d = 4
        BY <4>1
      <4> QED
        BY <4>2 DEF d
    <3>3. p \in DOMAIN screen /\ p \in DOMAIN shown[u]
      BY <1>3, <2>1, <2>4, PixelInGrid
    <3>4. Drawn(memory[u], registered[u])[k] =
            IF Within(p, dirty) THEN <<screen[p], p[1], p[2], Channel(k, s, 4)>> ELSE memory[u][k]
      BY <1>3, <2>1, <2>4, <3>2 DEF Drawn
    <3> QED
      BY <2>1, <2>2, <2>3, <3>1, <3>3, <3>4
  <2>5. Painted(u)'
    <3> HIDE DEF w, h, s
    <3> QED
      BY <1>2, <2>4 DEF Painted
  <2> QED
    BY <1>2, <2>5, PaintSame DEF PaintInv
<1> QED
  BY <1>1, <1>5, <1>6

LEMMA PaintNext == BufferInv /\ PaintInv /\ [Next]_vars => PaintInv'
<1> SUFFICES ASSUME BufferInv, PaintInv, [Next]_vars PROVE PaintInv'
  OBVIOUS
<1>1. CASE UNCHANGED bufferVars
  BY <1>1, PaintQuiet DEF PaintInv, paintVars, bufferVars
<1>2. ASSUME NEW id \in Ids, UnregisterBuffer(id) PROVE PaintInv'
  BY <1>2, UnregisterMaps, PaintSame DEF PaintInv
<1> QED
  BY <1>1, <1>2, NewBufferPaint, GrabPaint
     DEF Next, vars, Draw, ChangeMode, RequestUpdate, GiveUp

LEMMA PaintInit == Init => PaintInv
BY DEF Init, PaintInv, Empty

-----------------------------------------------------------------------------
(* Theorems.                                                               *)

\* Every variable of Buffer keeps its type: in particular the number of rects
\* that the C side writes into a usize stays within their array (rects() does
\* not panic), and no version wraps around before it has counted MaxVersion.
THEOREM BufferTypeCorrect == Spec => []TypeOK
<1>1. BufferInv => TypeOK
  BY DEF BufferInv
<1> QED
  BY <1>1, Invariance, PTL

\* What the kernel writes lies in memory that is still there, for every mode that
\* new_buffer is given, whatever its conversions make of it, and every order of
\* new_buffer, unregister_buffer, request_update and changes of mode.
THEOREM WritesLandCorrect == Spec => []WritesLand
<1>1. BufferInv => WritesLand
  <2> SUFFICES ASSUME BufferInv, NEW id \in DOMAIN registered
               PROVE  LET r == registered[id] IN
                      /\ r.buffer \in DOMAIN memory
                      /\ \A m \in Allowed :
                           Fits(r, m) => m.height * (Depth(m) * m.width) <= Len(memory[r.buffer])
    BY DEF WritesLand
  <2> DEFINE b == buffers[id]
             n == b.height * b.stride
  <2>1. /\ id \in DOMAIN buffers /\ id \in DOMAIN memory /\ registered[id].buffer = id
        /\ memory[id] = [k \in 1..n |-> memory[id][k]]
    BY DEF BufferInv, Lent, Sys
  <2>2. b.height \in Nat /\ b.stride \in Nat
    BY <2>1, Constants DEF BufferInv, TypeOK, BufferType
  <2>3. n \in Nat
    <3> HIDE DEF b
    <3> QED
      BY <2>2
  <2>4. Len(memory[id]) = n
    <3> HIDE DEF n, b
    <3> QED
      BY <2>1, <2>3, LenOfFunction
  <2>5. ASSUME NEW m \in Allowed, Fits(registered[id], m)
        PROVE  m.height * (Depth(m) * m.width) = n
    <3>1. b.height = m.height /\ b.stride = Depth(m) * m.width
      BY <2>1, <2>5, FitShape
    <3> HIDE DEF b
    <3> QED
      BY <3>1
  <2> HIDE DEF b, n
  <2> QED
    BY <2>1, <2>3, <2>4, <2>5
<1> QED
  BY <1>1, Invariance, PTL

\* The version of a buffer tells whether its bytes are still the same, whatever
\* requests time out, whatever grabs fail and however little they bring.
THEOREM VersionCorrect == Spec => []VersionTellsChange
<1>1. BufferInv => VersionTellsChange
  BY DEF BufferInv
<1> QED
  BY <1>1, Invariance, PTL

\* Every byte that changes in a buffer that stays is in a pixel within the rects
\* of that buffer, which has a new version.
THEOREM RectsCorrect == Spec => RectsTellChange
<1>1. BufferInv /\ [Next]_vars =>
        [\A id \in DOMAIN buffers \cap DOMAIN buffers' : RectsTell(id)]_vars
  BY GrabTells, OthersKeepBytes DEF RectsTell
<1> QED
  BY <1>1, Invariance, PTL DEF Spec, RectsTellChange

\* A buffer that alone was updated since the mode changed is the display, but for
\* the rects the kernel has yet to hand out: for every sequence of areas drawn,
\* lists of rects that run full, failed grabs and other buffers that come and go.
THEOREM SoleBufferCorrect == Spec => []SoleBufferCurrent
<1>1. BufferInv => SoleBufferCurrent
  BY DEF BufferInv
<1> QED
  BY <1>1, Invariance, PTL

\* debug_write_to_ppm writes every pixel as it was last copied into the buffer, at
\* its place and with its channels in order, or blank: for every width, height and
\* order of requests, changes of mode and grabs that bring a part of a picture.
THEOREM PpmCorrect == Spec => []PpmFaithful
<1>1. BufferInv /\ PaintInv => PpmFaithful
  <2> SUFFICES ASSUME BufferInv, PaintInv, NEW id \in DOMAIN buffers,
                      buffers[id].width > 0, buffers[id].stride = 4 * buffers[id].width
               PROVE  Ppm(buffers[id], memory[id]) =
                        [y \in 1..buffers[id].height |-> [x \in 1..buffers[id].width |->
                           LET from == shown[id][<<y - 1, x - 1>>] IN
                           IF from = 0 THEN <<Blank, Blank, Blank>>
                           ELSE [c \in 1..3 |-> <<from, y - 1, x - 1, 3 - c>>]]]
    BY DEF PpmFaithful
  <2> DEFINE b == buffers[id]
             w == b.width
             h == b.height
             s == b.stride
             bytes == memory[id]
             S == {bytes[k] : k \in 1..(h * s)}
             From(y, x) == shown[id][<<y - 1, x - 1>>]
             Byte(y, x, c) == bytes[(y - 1) * s + ((x - 1) * 4 + c)]
  <2>1. /\ w \in Nat \ {0} /\ h \in Nat /\ s = 4 * w
        /\ bytes = [k \in 1..(h * s) |-> bytes[k]]
        /\ \A k \in 1..(h * s) :
             LET p == Pixel(k, s, 4) IN
             bytes[k] = IF shown[id][p] = 0 THEN Blank
                        ELSE <<shown[id][p], p[1], p[2], Channel(k, s, 4)>>
    <3>1. b.width \in 0..Word-1 /\ b.height \in 0..Word-1
      BY DEF BufferInv, TypeOK, BufferType
    <3>2. bytes = [k \in 1..(h * s) |-> bytes[k]]
      BY DEF BufferInv, Lent
    <3>3. Painted(id)
      BY DEF PaintInv
    <3>4. w > 0 /\ s = 4 * w
      OBVIOUS
    <3>5. \A k \in 1..(h * s) :
             LET p == Pixel(k, s, 4) IN
             bytes[k] = IF shown[id][p] = 0 THEN Blank
                        ELSE <<shown[id][p], p[1], p[2], Channel(k, s, 4)>>
      BY <3>3, <3>4 DEF Painted
    <3>6. w \in Nat \ {0} /\ h \in Nat
      BY <3>1, <3>4, Constants
    <3> HIDE DEF b, w, h, s, bytes
    <3> QED
      BY <3>2, <3>4, <3>5, <3>6
  <2>2. /\ DOMAIN ChunksExact(bytes, s) = 1..h
        /\ \A y \in 1..h : LET line == ChunksExact(bytes, s)[y] IN
             /\ DOMAIN Pixels(line, w) = 1..w
             /\ \A x \in 1..w, c \in 1..4 : Pixels(line, w)[x][c] = Byte(y, x, c)
    <3> HIDE DEF w, h, s
    <3>1. h * s \in Nat /\ s \in Nat \ {0} /\ s = w * 4
      BY <2>1
    <3>2. Whole(bytes, S, s, h)
      <4> HIDE DEF bytes
      <4>1. Len(bytes) = h * s
        BY <2>1, <3>1, LenOfFunction
      <4>2. bytes \in [1..(h * s) -> S]
        BY <2>1
      <4> HIDE DEF S
      <4>3. bytes \in Seq(S)
        BY <3>1, <4>2, SeqDef
      <4> QED
        BY <4>1, <4>3 DEF Whole
    <3> HIDE DEF bytes, S
    <3>3. Found(bytes, w, h, s)
      <4>1. w \in Nat /\ h \in Nat
        BY <2>1
      <4> QED
        BY <3>1, <3>2, <4>1, PpmBytes
    <3> QED
      BY <3>3 DEF Found
  <2>3. ASSUME NEW y \in 1..h, NEW x \in 1..w, NEW c \in 1..4
        PROVE  Byte(y, x, c) = IF From(y, x) = 0 THEN Blank ELSE <<From(y, x), y - 1, x - 1, c - 1>>
    <3> DEFINE q == (x - 1) * 4 + (c - 1)
               k == (y - 1) * s + ((x - 1) * 4 + c)
    <3> HIDE DEF w, h, s, bytes, From
    <3>1. /\ q \in Nat /\ q < s /\ k \in 1..(h * s) /\ k - 1 = (y - 1) * s + q
          /\ y - 1 \in Nat /\ x - 1 \in Nat /\ c - 1 \in Nat /\ s \in Nat \ {0}
      <4>1. q \in Nat /\ q < s /\ s \in Nat \ {0} /\ y - 1 \in Nat /\ x - 1 \in Nat /\ c - 1 \in Nat
        BY <2>1
      <4>2. (y - 1) * s + s <= h * s /\ (y - 1) * s \in Nat
        <5>1. h \in Nat /\ s \in Nat
          BY <2>1, <4>1
        <5> QED
          BY <5>1, ChunkPlace
      <4> DEFINE a == (y - 1) * s
                 size == h * s
      <4>3. k = a + q + 1 /\ a \in Nat /\ a + s <= size /\ size \in Nat
        <5>1. size \in Nat
          BY <2>1, <4>1
        <5>2. k = a + ((x - 1) * 4 + c) /\ a \in Nat /\ a + s <= size
          BY <4>2
        <5> HIDE DEF a, k, size
        <5> QED
          BY <5>1, <5>2
      <4> HIDE DEF q, k, a, size
      <4>4. k \in 1..size /\ k - 1 = a + q
        BY <4>1, <4>3
      <4> QED
        BY <4>1, <4>4 DEF a, size
    <3>2. (k - 1) \div s = y - 1 /\ (k - 1) % s = q
      <4> HIDE DEF q, k
      <4>1. ((y - 1) * s + q) \div s = y - 1 /\ ((y - 1) * s + q) % s = q
        BY <3>1, DivMod
      <4> QED
        BY <3>1, <4>1
    <3>3. q \div 4 = x - 1 /\ q % 4 = c - 1
      BY <3>1, DivMod
    <3> HIDE DEF q, k
    <3>4. Pixel(k, s, 4) = <<y - 1, x - 1>> /\ Channel(k, s, 4) = c - 1
      BY <3>2, <3>3 DEF Pixel, Channel
    <3>5. bytes[k] = IF shown[id][<<y - 1, x - 1>>] = 0 THEN Blank
                     ELSE <<shown[id][<<y - 1, x - 1>>], y - 1, x - 1, c - 1>>
      <4> DEFINE p == <<y - 1, x - 1>>
      <4>1. p = Pixel(k, s, 4) /\ p[1] = y - 1 /\ p[2] = x - 1
        BY <3>4
      <4> HIDE DEF p
      <4>2. bytes[k] = IF shown[id][p] = 0 THEN Blank
                       ELSE <<shown[id][p], p[1], p[2], Channel(k, s, 4)>>
        BY <2>1, <3>1, <4>1
      <4>3. bytes[k] = IF shown[id][p] = 0 THEN Blank
                       ELSE <<shown[id][p], y - 1, x - 1, c - 1>>
        BY <3>4, <4>1, <4>2
      <4> QED
        BY <4>3 DEF p
    <3> QED
      BY <3>5 DEF k, From
  <2> HIDE DEF w, h, s, Byte, From
  <2>4. ASSUME NEW y \in 1..h, NEW x \in 1..w
        PROVE  <<Byte(y, x, 3), Byte(y, x, 2), Byte(y, x, 1)>> =
                 IF From(y, x) = 0 THEN <<Blank, Blank, Blank>>
                 ELSE [c \in 1..3 |-> <<From(y, x), y - 1, x - 1, 3 - c>>]
    <3>1. [c \in 1..3 |-> <<From(y, x), y - 1, x - 1, 3 - c>>] =
            <<<<From(y, x), y - 1, x - 1, 2>>, <<From(y, x), y - 1, x - 1, 1>>,
              <<From(y, x), y - 1, x - 1, 0>>>>
      OBVIOUS
    <3> QED
      BY <2>3, <3>1
  <2>5. Ppm(b, bytes) = [y \in 1..h |-> [x \in 1..w |->
                           <<Byte(y, x, 3), Byte(y, x, 2), Byte(y, x, 1)>>]]
    <3>1. LET lines == ChunksExact(bytes, s) IN
          Ppm(b, bytes) = [y \in DOMAIN lines |-> [x \in DOMAIN Pixels(lines[y], w) |->
                             << Pixels(lines[y], w)[x][3], Pixels(lines[y], w)[x][2],
                                Pixels(lines[y], w)[x][1] >>]]
      BY PpmLines DEF s, w
    <3>2. ASSUME NEW y \in 1..h
          PROVE  LET line == ChunksExact(bytes, s)[y] IN
                 [x \in DOMAIN Pixels(line, w) |->
                    <<Pixels(line, w)[x][3], Pixels(line, w)[x][2], Pixels(line, w)[x][1]>>]
                 = [x \in 1..w |-> <<Byte(y, x, 3), Byte(y, x, 2), Byte(y, x, 1)>>]
      <4> DEFINE P == Pixels(ChunksExact(bytes, s)[y], w)
      <4>1. DOMAIN P = 1..w /\ \A x \in 1..w, c \in 1..4 : P[x][c] = Byte(y, x, c)
        BY <2>2
      <4> HIDE DEF b, bytes, P
      <4> QED
        BY <4>1 DEF P
    <3> HIDE DEF b, bytes
    <3> QED
      BY <2>2, <3>1, <3>2
  <2> QED
    BY <2>4, <2>5 DEF w, h, From
<1> QED
  BY <1>1, InitInv, NextInv, PaintInit, PaintNext, PTL DEF Spec
=============================================================================
