------------------------------- MODULE Buffer -------------------------------
(***************************************************************************)
(* buffer.rs: the memory a Handle lends to libevdi, from the mode the      *)
(* kernel announces (Mode of events.rs) to the picture a reader makes of   *)
(* it (debug_write_to_ppm), with the arithmetic of its dimensions and the  *)
(* rects that say which part of the picture an update brought.             *)
(*                                                                         *)
(* A byte is <<picture, row, column, channel>>, or Blank; so a byte that   *)
(* ends up in the wrong place, or is left over from another picture, can   *)
(* be told.  A u32, a c_int and a usize hold Word, Word and unbounded many *)
(* values; sums wrap as in a release build (a debug build panics instead). *)
(* An id is also the address of its buffer's memory: ids are drawn from    *)
(* 2^32 at random, and taken to be different while in use.                 *)
(***************************************************************************)
EXTENDS Integers, Sequences

CONSTANTS
  Ids,          \* buffer ids
  None,         \* Option::None
  SysModes,     \* evdi_mode: the modes the kernel may announce
  UserModes,    \* Mode: those the user makes up (its fields are public)
  Areas,        \* evdi_rect: the areas the kernel may draw in one go
  Config,       \* the DeviceConfig given to connect
  Word,         \* 2^32
  MaxRects,     \* MAX_RECTS_BUFFER_LEN (16 in the code)
  MaxPictures,  \* bound of the model: pictures the kernel draws
  MaxVersion    \* bound of the model: updates of one buffer

Formats == {"Xrgb8888", "other"}

Rect == [x1 : Nat, y1 : Nat, x2 : Nat, y2 : Nat]

ASSUME BufferAssumption ==
  /\ None \notin Ids \cup Int
  /\ MaxRects \in Nat \ {0} /\ MaxPictures \in Nat \ {0} /\ MaxVersion \in 0..Word-1
  /\ Word \in Nat /\ Word % 2 = 0 /\ MaxRects < Word \div 2
  /\ Config \in [width_pixels : 0..Word-1, height_pixels : 0..Word-1]
  /\ SysModes \subseteq [width : 0..(Word \div 2)-1, height : 0..(Word \div 2)-1,
                         bits_per_pixel : 0..(Word \div 2)-1, pixel_format : Formats]
  /\ UserModes \subseteq [width : 0..Word-1, height : 0..Word-1,
                          bits_per_pixel : 0..Word-1, pixel_format : Formats]
  /\ Areas \subseteq Rect

VARIABLES
  mode,            \* the evdi_mode of the kernel's frame buffer
  screen,          \* the picture that each of its pixels is from
  picture,         \* the last picture drawn
  dirty,           \* kernel: the rects drawn since it last handed them out
  buffers,         \* Handle::buffers, a map from some of the ids
  memory,          \* the boxed bytes of each buffer that is not freed
  registered,      \* libevdi: the evdi_buffer it holds under some of the ids
  bufferToUpdate,  \* libevdi: the id last asked for
  updating,        \* the buffer a request_update is under way for
  shown,           \* history: the picture each pixel of a buffer was copied from; 0 for none
  seen,            \* history: each version a buffer has had, with its bytes
  takers           \* history: whose updates took rects since the mode changed; None: one freed

kernelVars == <<mode, screen, picture, dirty>>
bufferVars == <<buffers, memory, registered, shown, seen>>
vars == <<kernelVars, bufferVars, bufferToUpdate, updating, takers>>

-----------------------------------------------------------------------------
(* Numbers and dimensions.                                                 *)

AsU32(n) == n % Word
AsInt(n) == IF AsU32(n) < Word \div 2 THEN AsU32(n) ELSE AsU32(n) - Word

\* From<ffi::evdi_mode>
Mode(sys) == [ width  |-> AsU32(sys.width),
               height |-> AsU32(sys.height),
               bits_per_pixel |-> AsU32(sys.bits_per_pixel),
               pixel_format   |-> sys.pixel_format ]

Stride(m) == AsU32((m.bits_per_pixel \div 8) * m.width)

\* DeviceConfig::sku_area_limit
SkuAreaLimit == AsU32(Config.width_pixels * Config.height_pixels)

\* External: the modes connect leaves the display.
Allowed == {m \in SysModes : m.width * m.height <= SkuAreaLimit}

\* The modes that new_buffer is given.
Modes == {Mode(sys) : sys \in Allowed} \cup UserModes

\* Pixels, by line and column, and the rects they are in.
Grid(width, height) == (0..height-1) \X (0..width-1)

Inside(p, rect) == p[1] \in rect.y1..rect.y2-1 /\ p[2] \in rect.x1..rect.x2-1

Within(p, rects) == \E i \in DOMAIN rects : Inside(p, rects[i])

All(m) == [x1 |-> 0, y1 |-> 0, x2 |-> m.width, y2 |-> m.height]

Blank == <<>>

Bytes(n) == [k \in 1..n |-> Blank]

\* As examples/low_level_usage.rs does it.
AllocateArea(m) == Bytes(m.height * m.width)

Allocate(m) == Bytes(m.height * Stride(m))

New(m) == [ version |-> None,
            width   |-> m.width,
            height  |-> m.height,
            stride  |-> Stride(m),
            pixel_format |-> m.pixel_format,
            rects   |-> [data |-> [i \in 1..MaxRects |-> [x1 |-> 0, y1 |-> 0, x2 |-> 0, y2 |-> 0]],
                         len  |-> 0] ]

\* Buffer::rects, which panics if there are more than MaxRects.
Rects(b) == SubSeq(b.rects.data, 1, b.rects.len)

\* Buffer::sys.  libevdi is taken not to use the rect_count of a registered buffer;
\* the count comes from evdi_grab_pixels.
Sys(id, b) == [ buffer |-> id,
                width  |-> AsInt(b.width),
                height |-> AsInt(b.height),
                stride |-> AsInt(b.stride) ]

\* Maps: the empty one, one key more, one key less.
Empty == [id \in {} |-> 0]
With(f, id, v) == [i \in DOMAIN f \cup {id} |-> IF i = id THEN v ELSE f[i]]
Without(f, id) == [i \in DOMAIN f \ {id} |-> f[i]]

Version == 0..MaxVersion \cup {None}

BufferType ==
  [ version : Version, width : 0..Word-1, height : 0..Word-1, stride : 0..Word-1,
    pixel_format : Formats, rects : [data : [1..MaxRects -> Rect], len : 0..MaxRects] ]

TypeOK ==
  /\ mode \in Allowed
  /\ picture \in 1..MaxPictures
  /\ screen \in [Grid(mode.width, mode.height) -> 1..MaxPictures]
  /\ dirty \in Seq(Rect) /\ Len(dirty) <= MaxRects
  /\ DOMAIN buffers \subseteq Ids
  /\ DOMAIN shown = DOMAIN buffers /\ DOMAIN seen = DOMAIN buffers
  /\ \A id \in DOMAIN buffers :
       LET b == buffers[id] IN
       /\ b \in BufferType
       /\ shown[id] \in [Grid(b.width, b.height) -> 0..MaxPictures]
       /\ \A p \in seen[id] : p[1] \in Version
  /\ bufferToUpdate \in Ids \cup {None}
  /\ updating \in Ids \cup {None}
  /\ takers \subseteq DOMAIN buffers \cup {None}

Init ==
  /\ mode \in Allowed
  /\ picture = 1
  /\ screen = [p \in Grid(mode.width, mode.height) |-> 1]
  /\ dirty = <<All(mode)>>
  /\ buffers = Empty
  /\ memory = Empty
  /\ registered = Empty
  /\ bufferToUpdate = None
  /\ updating = None
  /\ shown = Empty
  /\ seen = Empty
  /\ takers = {}

-----------------------------------------------------------------------------
(* External: the kernel.                                                   *)

\* A kernel that has no room for one more rect makes one of them all.
Draw(area) ==
  /\ picture < MaxPictures
  /\ area.x2 <= mode.width /\ area.y2 <= mode.height
  /\ picture' = picture + 1
  /\ screen' = [p \in DOMAIN screen |-> IF Inside(p, area) THEN picture' ELSE screen[p]]
  /\ dirty' = IF Len(dirty) < MaxRects THEN Append(dirty, area) ELSE <<All(mode)>>
  /\ UNCHANGED <<mode, bufferVars, bufferToUpdate, updating, takers>>

ChangeMode ==
  /\ picture < MaxPictures
  /\ picture' = picture + 1
  /\ mode' \in Allowed \ {mode}
  /\ screen' = [p \in Grid(mode'.width, mode'.height) |-> picture']
  /\ dirty' = <<All(mode')>>
  /\ takers' = {}
  /\ UNCHANGED <<bufferVars, bufferToUpdate, updating>>

\* Bytes per pixel.
Depth(m) == m.bits_per_pixel \div 8

Fits(r, m) == r.width = m.width /\ r.height = m.height /\ r.stride = Depth(m) * m.width

\* Only a registered buffer of the frame buffer's own shape is written to.
Writes == bufferToUpdate \in DOMAIN registered /\ Fits(registered[bufferToUpdate], mode)

\* The pixel that the byte k belongs to, in lines of stride bytes and pixels of n.
Pixel(k, stride, n) == <<(k - 1) \div stride, ((k - 1) % stride) \div n>>

Channel(k, stride, n) == ((k - 1) % stride) % n

\* The bytes of old, with the pixels that are in the dirty rects, and no others,
\* copied from the frame buffer.
Drawn(old, r) ==
  [k \in DOMAIN old |->
     LET p == Pixel(k, r.stride, Depth(mode))
     IN  IF Within(p, dirty) THEN <<screen[p], p[1], p[2], Channel(k, r.stride, Depth(mode))>>
         ELSE old[k]]

-----------------------------------------------------------------------------
(* The operations of a Handle on its buffers.  &mut self: one at a time.   *)

NewBuffer(id, m) ==
  /\ updating = None /\ id \notin DOMAIN buffers
  /\ buffers' = With(buffers, id, New(m))
  /\ memory' = With(memory, id, Allocate(m))
  /\ registered' = With(registered, id, Sys(id, New(m)))
  /\ shown' = With(shown, id, [p \in Grid(m.width, m.height) |-> 0])
  /\ seen' = With(seen, id, {<<None, Allocate(m)>>})
  /\ UNCHANGED <<kernelVars, bufferToUpdate, updating, takers>>

UnregisterBuffer(id) ==
  /\ updating = None /\ id \in DOMAIN buffers
  /\ buffers' = Without(buffers, id)
  /\ memory' = Without(memory, id)
  /\ registered' = Without(registered, id)
  /\ shown' = Without(shown, id)
  /\ seen' = Without(seen, id)
  /\ takers' = {IF t = id THEN None ELSE t : t \in takers}
  /\ UNCHANGED <<kernelVars, bufferToUpdate, updating>>

\* libevdi is not asked again while a request is outstanding.
RequestUpdateOnce(id) ==
  /\ updating = None /\ id \in DOMAIN buffers
  /\ buffers[id].version # MaxVersion
  /\ updating' = id
  /\ bufferToUpdate' = IF bufferToUpdate \in DOMAIN registered THEN bufferToUpdate ELSE id
  /\ UNCHANGED <<kernelVars, bufferVars, takers>>

RequestUpdate(id) ==
  /\ updating = None /\ id \in DOMAIN buffers
  /\ buffers[id].version # MaxVersion
  /\ updating' = id
  /\ bufferToUpdate' = id
  /\ UNCHANGED <<kernelVars, bufferVars, takers>>

\* The wait times out, or the call is dropped.
GiveUp ==
  /\ updating # None
  /\ updating' = None
  /\ UNCHANGED <<kernelVars, bufferVars, bufferToUpdate, takers>>

\* An update that follows the first is not counted.
MarkUpdatedOnce(version) == 0

MarkUpdated(version) == IF version = None THEN 0 ELSE AsU32(version + 1)

\* The other half of the usize.
WriteLenHigh(len, n) == AsU32(n) * Word + (len % Word)

\* A pointer to a copy of len, converted to an int.
WriteLenCopy(len, n) == len

\* len_ptr_mut: the C side writes an int where Rust keeps a usize.
WriteLen(len, n) == (len \div Word) * Word + AsU32(n)

\* What evdi_grab_pixels leaves in the rects it is given.
WriteRects(old, rects) ==
  [ data |-> [i \in 1..MaxRects |-> IF i <= Len(rects) THEN rects[i] ELSE old.data[i]],
    len  |-> WriteLen(old.len, Len(rects)) ]

\* evdi_grab_pixels hands out the dirty rects and copies the pixels in them, or
\* fails; which, is not looked at.  mark_updated.
Grab ==
  /\ updating # None
  /\ \/ /\ Writes
        /\ LET r == registered[bufferToUpdate] IN
             /\ memory' = [memory EXCEPT ![r.buffer] = Drawn(@, r)]
             /\ shown' = [shown EXCEPT ![r.buffer] =
                             [p \in DOMAIN @ |-> IF Within(p, dirty) THEN screen[p] ELSE @[p]]]
        /\ buffers' = [buffers EXCEPT ![updating].rects = WriteRects(@, dirty),
                                      ![updating].version = MarkUpdated(@)]
        /\ dirty' = <<>>
        /\ takers' = takers \cup {updating}
     \/ /\ buffers' = [buffers EXCEPT ![updating].rects = WriteRects(@, <<>>),
                                      ![updating].version = MarkUpdated(@)]
        /\ UNCHANGED <<memory, shown, dirty, takers>>
  /\ seen' = [seen EXCEPT ![updating] = @ \cup {<<buffers'[updating].version, memory'[updating]>>}]
  /\ updating' = None
  /\ UNCHANGED <<mode, screen, picture, registered, bufferToUpdate>>

-----------------------------------------------------------------------------
(* Reading a buffer.                                                       *)

ChunksExact(s, n) == [k \in 1..(Len(s) \div n) |-> SubSeq(s, (k - 1) * n + 1, k * n)]

\* The channels in the order of the memory.
PpmBgr(b, bytes) ==
  LET Pixels(line) == ChunksExact(SubSeq(line, 1, b.width * 4), 4)
      lines == ChunksExact(bytes, b.stride)
  IN  [y \in DOMAIN lines |-> [x \in DOMAIN Pixels(lines[y]) |-> SubSeq(Pixels(lines[y])[x], 1, 3)]]

\* What debug_write_to_ppm writes after the header: lines of <<r, g, b>>.
Ppm(b, bytes) ==
  LET Pixels(line) == ChunksExact(SubSeq(line, 1, b.width * 4), 4)
      Rgb(pixel) == <<pixel[3], pixel[2], pixel[1]>>
      lines == ChunksExact(bytes, b.stride)
  IN  [y \in DOMAIN lines |-> [x \in DOMAIN Pixels(lines[y]) |-> Rgb(Pixels(lines[y])[x])]]

-----------------------------------------------------------------------------
Next ==
  \/ \E area \in Areas : Draw(area)
  \/ ChangeMode
  \/ \E id \in Ids : \/ \E m \in Modes : NewBuffer(id, m)
                     \/ UnregisterBuffer(id) \/ RequestUpdate(id)
  \/ GiveUp \/ Grab

Spec == Init /\ [][Next]_vars

-----------------------------------------------------------------------------
\* Whatever the kernel writes lies in memory that is still there: a registered
\* buffer is alive, and if a mode of the kernel fits what libevdi was told of it,
\* after conversions that may wrap and casts that may change a sign, then the
\* lines of that mode end where the allocation ends.
WritesLand ==
  \A id \in DOMAIN registered :
    LET r == registered[id] IN
    /\ r.buffer \in DOMAIN memory
    /\ \A m \in Allowed :
         Fits(r, m) => m.height * (Depth(m) * m.width) <= Len(memory[r.buffer])

\* A reader that keeps a buffer's version knows from it whether the bytes are
\* still those it saw ("None if the buffer never been written to, otherwise
\* Some(n) where n increases", at Buffer::version): the same version means the
\* same bytes, and None means blank ones.
VersionTellsChange ==
  \A id \in DOMAIN buffers : \A p, q \in seen[id] :
    /\ p[1] = q[1] => p[2] = q[2]
    /\ p[1] = None => \A k \in DOMAIN p[2] : p[2][k] = Blank

\* What a step may do to a buffer.
RectsTell(id) ==
  memory'[id] # memory[id] =>
    /\ buffers'[id].version # buffers[id].version
    /\ \A k \in DOMAIN memory[id] :
         memory'[id][k] # memory[id][k] =>
           Within(Pixel(k, buffers[id].stride, Depth(mode)), Rects(buffers'[id]))

\* A reader that keeps a copy of a buffer and, at each new version, copies only
\* what rects() names, has all of it: no byte of a buffer changes but in a pixel
\* within the rects of that buffer, with a new version of that buffer.
RectsTellChange ==
  [][\A id \in DOMAIN buffers \cap DOMAIN buffers' : RectsTell(id)]_vars

\* The kernel hands out a rect once.  So a buffer is the display ("update a buffer
\* with the current display pixels", at Handle::request_update) if it alone was
\* updated since the mode changed, but for what has been drawn since; a second
\* buffer misses what the first took, and nothing is claimed of it.
SoleBufferCurrent ==
  \A id \in DOMAIN buffers :
    takers \subseteq {id} =>
      \A p \in DOMAIN screen : Within(p, dirty) \/ shown[id][p] = screen[p]

\* debug_write_to_ppm writes the buffer, however little of it each update brought:
\* every pixel is the one at its place in the picture last copied there, with its
\* channels in order, or blank.  The code asserts Xrgb8888 (the comment at
\* buffer.rs:131 says Xbgr8888); with a line of other than four bytes a pixel, from
\* a Mode the user made up, it panics or reads pixels that are none.
PpmFaithful ==
  \A id \in DOMAIN buffers :
    LET b == buffers[id] IN
    b.pixel_format = "Xrgb8888" /\ b.width > 0 /\ b.stride = 4 * b.width =>
      Ppm(b, memory[id]) =
        [y \in 1..b.height |-> [x \in 1..b.width |->
           LET from == shown[id][<<y - 1, x - 1>>] IN
           IF from = 0 THEN <<Blank, Blank, Blank>>
           ELSE [c \in 1..3 |-> <<from, y - 1, x - 1, 3 - c>>]]]
=============================================================================
