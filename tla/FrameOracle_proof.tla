------------------------- MODULE FrameOracle_proof -------------------------
(***************************************************************************)
(* Proofs that the reference compositor shows what its header promises,    *)
(* for any display, any number of objects and any scene its types admit,   *)
(* and that the conversions, by whichever backend and of whatever image,   *)
(* put each bit in the plane, the byte and the place where it belongs, so  *)
(* that the decoder shows what the compositor does.                        *)
(***************************************************************************)
EXTENDS FrameOracle, FiniteSetTheorems, SequenceTheorems, TLAPS

(***************************************************************************)
(* What is seen, as a type: symbolic pixels.                               *)
(***************************************************************************)
Bits    == (STRING \cup {"kept"}) \X Int \X Int \X (0 .. 3)
Pixels  == [0 .. 3 -> SUBSET Bits]
Entries == [pixel : Pixels, overlay : BOOLEAN]

OutputBytes(s) == 0 .. s.output_stride * DisplayHeight - 1
OnDisplay(s, o) == /\ o % s.output_stride < DisplayWidth
                   /\ o \div s.output_stride < DisplayHeight

Typed ==
    /\ scene \in Scenes
    /\ step \in {"validate", "refused", "planar", "pixel", "objects",
                 "composed"}
    /\ priority \in Nat /\ object \in Nat \ {0}
    /\ composed \in [OutputBytes(scene) -> Seq(Entries)]

(***************************************************************************)
(* The objects that the two loops have passed, when the loop over the      *)
(* priorities is at p and that over the list at k.                         *)
(***************************************************************************)
Passed(s, p, k) ==
    {i \in DOMAIN s.objects :
        \/ s.objects[i].priority < p
        \/ s.objects[i].priority = p /\ i < k}

Back(s, x, y) ==
    IF Shows(s.planar, s.planar.at, x, y)
    THEN <<Opaque(Seen(s.planar, s.planar.at, x, y))>>
    ELSE <<Opaque(Black)>>

(***************************************************************************)
(* What a byte of the output holds before each step.                       *)
(***************************************************************************)
DrawnSoFar(s, at, p, k, entries, x, y) ==
    /\ at = "planar" => entries = <<Opaque(Black)>>
    /\ at = "pixel" => entries = Back(s, x, y)
    /\ at = "objects" =>
          Stacked(s, entries, Here(s, x, y) \cap Passed(s, p, k), x, y)
    /\ at = "composed" => Stacked(s, entries, Here(s, x, y), x, y)

ByteSound(s, at, p, k, o, entries) ==
    IF at \notin {"validate", "refused"} /\ OnDisplay(s, o)
    THEN DrawnSoFar(s, at, p, k, entries,
                    o % s.output_stride, o \div s.output_stride)
    ELSE entries = Kept

FrameInv ==
    /\ Typed
    /\ step \notin {"validate", "refused"} => ValidScene(scene)
    /\ step \in {"validate", "planar", "pixel"} => priority = 0 /\ object = 1
    /\ \A o \in OutputBytes(scene) :
          ByteSound(scene, step, priority, object, o, composed[o])
-----------------------------------------------------------------------------
LEMMA Quotient ==
  ASSUME NEW k \in Nat, NEW q \in Nat, NEW r \in Nat, r < k
  PROVE  (q * k + r) \div k = q /\ (q * k + r) % k = r
<1> DEFINE n == q * k + r
<1>1. n \in Nat /\ k \in Nat \ {0} /\ n = q * k + r
  OBVIOUS
<1> HIDE DEF n
<1>2. n \div k = q
  BY <1>1
<1>3. n % k = r
  BY <1>1
<1> QED BY <1>2, <1>3 DEF n

LEMMA Coordinates ==
  ASSUME scene.output_stride \in Nat, NEW o \in OutputBytes(scene)
  PROVE  /\ o % scene.output_stride \in Int
         /\ o \div scene.output_stride \in Int
<1> DEFINE k == scene.output_stride
<1>1. k # 0
  BY DisplayAssumption DEF OutputBytes
<1>2. o \in Nat /\ k \in Nat \ {0}
  BY <1>1 DEF OutputBytes
<1> HIDE DEF k
<1>3. o % k \in Int /\ o \div k \in Int
  BY <1>2
<1> QED BY <1>3 DEF k

(***************************************************************************)
(* A view or an object, and a place on the screen.                         *)
(***************************************************************************)
IsRectangle(v) == /\ v.surface \in Surfaces /\ v.shown \in BOOLEAN
                  /\ v.from \in Nat \X Nat /\ v.size \in Nat \X Nat

LEMMA RectanglesTyped ==
  (\A v \in Views : IsRectangle(v) /\ v.at \in Int \X Int)
  /\ (\A v \in Objects : IsRectangle(v) /\ v.at \in Int \X Int
                         /\ v.priority \in 0 .. MaxPriority)
BY DEF Views, Objects, IsRectangle

LEMMA SeenIsPixel ==
  ASSUME NEW v, IsRectangle(v), NEW place \in Int \X Int,
         NEW x \in Int, NEW y \in Int
  PROVE  /\ Overlay(Seen(v, place, x, y)) \in Entries
         /\ Opaque(Seen(v, place, x, y)) \in Entries
<1>1. \A b \in 0 .. 3 :
         {<<v.surface.name, v.from[1] + x - place[1],
            v.from[2] + y - place[2], b>>} \in SUBSET Bits
  BY DEF IsRectangle, Surfaces, Bits
<1>2. Seen(v, place, x, y) \in Pixels
  BY <1>1 DEF Seen, Pixels
<1> QED BY <1>2 DEF Overlay, Opaque, Entries

LEMMA ConstantsArePixels ==
  Opaque(Black) \in Entries /\ Kept \in Seq(Entries)
<1>1. Black \in Pixels
  BY DEF Black, Pixels
<1>2. \A b \in 0 .. 3 : {<<"kept", 0, 0, 0>>} \in SUBSET Bits
  BY DEF Bits
<1>3. [b \in 0 .. 3 |-> {<<"kept", 0, 0, 0>>}] \in Pixels
  BY <1>2 DEF Pixels
<1> QED BY <1>1, <1>3 DEF Kept, Opaque, Entries

(***************************************************************************)
(* The byte that draw_view and draw_object read for a place on the screen  *)
(* is the one that is to be seen there: the address stays in its row.      *)
(***************************************************************************)
LEMMA TexelSeen ==
  ASSUME NEW v, IsRectangle(v), RegionFits(v), NEW place \in Int \X Int,
         NEW x \in Int, NEW y \in Int, Shows(v, place, x, y)
  PROVE  Texel(v.surface, (v.from[2] + (y - place[2])) * v.surface.stride
                          + v.from[1] + (x - place[1]))
         = Seen(v, place, x, y)
<1> DEFINE q == v.from[2] + (y - place[2])
           r == v.from[1] + (x - place[1])
           k == v.surface.stride
           offset == q * k + v.from[1] + (x - place[1])
<1>1. /\ v.from[1] \in Nat /\ v.from[2] \in Nat
      /\ v.size[1] \in Nat /\ v.size[2] \in Nat
      /\ place[1] \in Int /\ place[2] \in Int
      /\ v.surface.width \in Nat /\ v.surface.stride \in Nat
  BY DEF IsRectangle, Surfaces
<1>2. q \in Nat /\ r \in Nat /\ k \in Nat /\ r < v.surface.width /\ r < k
  BY <1>1 DEF RegionFits, Shows
<1>3. offset = q * k + r
  BY <1>1, <1>2
<1>4. offset \div k = q /\ offset % k = r
  <2> HIDE DEF offset, q, r, k
  <2> QED BY <1>2, <1>3, Quotient
<1>5. r = v.from[1] + x - place[1] /\ q = v.from[2] + y - place[2]
  BY <1>1
<1> HIDE DEF offset, q, r
<1>6. Texel(v.surface, offset) =
         [b \in 0 .. 3 |-> {<<v.surface.name, r, q, b>>}]
  BY <1>2, <1>4 DEF Texel
<1>7. Texel(v.surface, offset) = Seen(v, place, x, y)
  BY <1>5, <1>6 DEF Seen
<1> QED BY <1>7 DEF offset, q

(***************************************************************************)
(* What drawing a rectangle does to the bytes of the output.               *)
(***************************************************************************)
LEMMA DrawnBytes ==
  ASSUME Typed, NEW v, IsRectangle(v), RegionFits(v), v.shown,
         NEW place \in Int \X Int, NEW overlay \in BOOLEAN
  PROVE  LET drawn == Drawn(v, place, composed, scene.output_stride, overlay)
         IN /\ drawn \in [OutputBytes(scene) -> Seq(Entries)]
            /\ \A o \in OutputBytes(scene) :
                 LET x == o % scene.output_stride
                     y == o \div scene.output_stride
                 IN drawn[o] =
                       IF OnDisplay(scene, o) /\ Shows(v, place, x, y)
                       THEN IF overlay
                            THEN <<Overlay(Seen(v, place, x, y))>>
                                 \o composed[o]
                            ELSE <<Opaque(Seen(v, place, x, y))>>
                       ELSE composed[o]
<1> DEFINE stride == scene.output_stride
           drawn == Drawn(v, place, composed, stride, overlay)
           X(o) == o % stride
           Y(o) == o \div stride
           Wanted1(o) == IF OnDisplay(scene, o) /\ Shows(v, place, X(o), Y(o))
                         THEN IF overlay
                              THEN <<Overlay(Seen(v, place, X(o), Y(o)))>>
                                   \o composed[o]
                              ELSE <<Opaque(Seen(v, place, X(o), Y(o)))>>
                         ELSE composed[o]
<1>1. /\ DOMAIN composed = OutputBytes(scene)
      /\ \A o \in OutputBytes(scene) : composed[o] \in Seq(Entries)
  BY DEF Typed
<1>2. DOMAIN drawn = OutputBytes(scene)
  BY <1>1 DEF Drawn
<1>3. ASSUME NEW o \in OutputBytes(scene)
      PROVE  X(o) \in Int /\ Y(o) \in Int
  BY Coordinates DEF Typed, Scenes
<1>4. ASSUME NEW o \in OutputBytes(scene)
      PROVE  drawn[o] = Wanted1(o)
  <2> DEFINE dx == X(o) - place[1]
             dy == Y(o) - place[2]
             pixel == Texel(v.surface, (v.from[2] + dy) * v.surface.stride
                                       + v.from[1] + dx)
  <2>1. drawn[o] = IF /\ X(o) < DisplayWidth /\ Y(o) < DisplayHeight
                      /\ dx \in 0 .. v.size[1] - 1
                      /\ dy \in 0 .. v.size[2] - 1
                   THEN IF overlay THEN <<Overlay(pixel)>> \o composed[o]
                        ELSE <<Opaque(pixel)>>
                   ELSE composed[o]
    BY <1>1 DEF Drawn
  <2>2. Shows(v, place, X(o), Y(o)) <=> /\ dx \in 0 .. v.size[1] - 1
                                        /\ dy \in 0 .. v.size[2] - 1
    BY DEF Shows
  <2>3. Shows(v, place, X(o), Y(o)) => pixel = Seen(v, place, X(o), Y(o))
    <3> HIDE DEF X, Y
    <3> QED BY <1>3, TexelSeen
  <2> HIDE DEF X, Y, dx, dy, pixel, drawn
  <2>4. OnDisplay(scene, o) <=> X(o) < DisplayWidth /\ Y(o) < DisplayHeight
    BY DEF OnDisplay, X, Y
  <2> QED BY <2>1, <2>2, <2>3, <2>4
<1>5. ASSUME NEW o \in OutputBytes(scene)
      PROVE  Wanted1(o) \in Seq(Entries)
  <2> HIDE DEF X, Y
  <2>1. /\ Overlay(Seen(v, place, X(o), Y(o))) \in Entries
        /\ Opaque(Seen(v, place, X(o), Y(o))) \in Entries
    BY <1>3, SeenIsPixel
  <2>2. <<Overlay(Seen(v, place, X(o), Y(o)))>> \in Seq(Entries)
    BY <2>1
  <2> QED BY <1>1, <2>1, <2>2
<1>6. drawn = [o \in OutputBytes(scene) |-> drawn[o]]
  BY <1>2 DEF Drawn
<1> HIDE DEF drawn, Wanted1
<1>7. drawn \in [OutputBytes(scene) -> Seq(Entries)]
  BY <1>4, <1>5, <1>6
<1> QED BY <1>4, <1>7 DEF drawn, Wanted1

(***************************************************************************)
(* Parts of a scene.                                                       *)
(***************************************************************************)
LEMMA SceneParts ==
  ASSUME NEW s \in Scenes
  PROVE  /\ IsRectangle(s.planar) /\ IsRectangle(s.pixel)
         /\ s.planar.at \in Int \X Int /\ s.pixel.at \in Int \X Int
         /\ Len(s.objects) \in Nat
         /\ DOMAIN s.objects = 1 .. Len(s.objects)
         /\ \A i \in DOMAIN s.objects :
               /\ IsRectangle(s.objects[i])
               /\ s.objects[i].at \in Int \X Int
               /\ s.objects[i].priority \in 0 .. MaxPriority
               /\ Standing(s, i) \in Int \X Int
               /\ Standing(s, i) = Origin(s.objects[i], s.camera)
<1>1. /\ s.planar \in Views /\ s.pixel \in Views
      /\ s.objects \in Seq(Objects) /\ s.camera \in Int \X Int
  BY DEF Scenes
<1>2. /\ Len(s.objects) \in Nat
      /\ DOMAIN s.objects = 1 .. Len(s.objects)
      /\ \A i \in DOMAIN s.objects : s.objects[i] \in Objects
  BY <1>1
<1>3. ASSUME NEW i \in DOMAIN s.objects
      PROVE  /\ IsRectangle(s.objects[i]) /\ s.objects[i].at \in Int \X Int
             /\ s.objects[i].priority \in 0 .. MaxPriority
  BY <1>2, RectanglesTyped
<1>4. ASSUME NEW i \in DOMAIN s.objects
      PROVE  /\ Standing(s, i) \in Int \X Int
             /\ Standing(s, i) = Origin(s.objects[i], s.camera)
  BY <1>1, <1>3 DEF Standing, Origin
<1> QED BY <1>1, <1>2, <1>3, <1>4, RectanglesTyped

LEMMA UnderTyped ==
  ASSUME NEW s \in Scenes, NEW x \in Int, NEW y \in Int
  PROVE  Under(s, x, y) \in Seq(Entries)
<1> DEFINE front == Overlay(Seen(s.pixel, s.pixel.at, x, y))
           back == Opaque(Seen(s.planar, s.planar.at, x, y))
<1>1. front \in Entries /\ back \in Entries /\ Opaque(Black) \in Entries
  BY SceneParts, SeenIsPixel, ConstantsArePixels
<1> HIDE DEF front, back
<1>2. /\ <<>> \in Seq(Entries) /\ <<front>> \in Seq(Entries)
      /\ <<back>> \in Seq(Entries) /\ <<Opaque(Black)>> \in Seq(Entries)
  BY <1>1
<1>3. /\ <<>> \o <<back>> \in Seq(Entries)
      /\ <<front>> \o <<back>> \in Seq(Entries)
      /\ <<>> \o <<Opaque(Black)>> \in Seq(Entries)
      /\ <<front>> \o <<Opaque(Black)>> \in Seq(Entries)
  BY <1>2
<1> QED BY <1>3 DEF Under, front, back

(***************************************************************************)
(* The ranks of the objects at a place are numbers of a finite set's       *)
(* elements, and an object above all of them takes the first.              *)
(***************************************************************************)
LEMMA Ranks ==
  ASSUME NEW s \in Scenes, NEW here \in SUBSET DOMAIN s.objects
  PROVE  /\ IsFiniteSet(here) /\ Cardinality(here) \in Nat
         /\ \A j \in here :
               Rank(s.objects, here, j) \in 1 .. Cardinality(here)
<1>1. IsFiniteSet(here) /\ Cardinality(here) \in Nat
  <2>1. IsFiniteSet(1 .. Len(s.objects))
    BY SceneParts, FS_Interval
  <2>2. here \in SUBSET (1 .. Len(s.objects))
    BY SceneParts
  <2>3. IsFiniteSet(here)
    BY <2>1, <2>2, FS_Subset
  <2> QED BY <2>3, FS_CardinalityType
<1>2. ASSUME NEW j \in here
      PROVE  Rank(s.objects, here, j) \in 1 .. Cardinality(here)
  <2> DEFINE above == {k \in here : Above(s.objects, k, j)}
  <2>1. above \in SUBSET here /\ j \in above
    BY SceneParts DEF Above
  <2> HIDE DEF above
  <2>2. IsFiniteSet(above) /\ Cardinality(above) <= Cardinality(here)
    BY <1>1, <2>1, FS_Subset
  <2>3. Cardinality(above) \in Nat /\ Cardinality(above) # 0
    BY <2>1, <2>2, FS_CardinalityType, FS_EmptySet
  <2>4. Rank(s.objects, here, j) = Cardinality(above)
    BY DEF Rank, above
  <2> QED BY <1>1, <2>2, <2>3, <2>4
<1> QED BY <1>1, <1>2

LEMMA RanksRaised ==
  ASSUME NEW s \in Scenes, NEW here \in SUBSET DOMAIN s.objects,
         NEW i \in DOMAIN s.objects, i \notin here,
         \A j \in here : /\ Above(s.objects, i, j)
                         /\ ~Above(s.objects, j, i)
  PROVE  /\ Cardinality(here \cup {i}) = Cardinality(here) + 1
         /\ Rank(s.objects, here \cup {i}, i) = 1
         /\ \A j \in here : Rank(s.objects, here \cup {i}, j)
                            = Rank(s.objects, here, j) + 1
<1>1. IsFiniteSet(here)
  BY Ranks
<1>2. Cardinality(here \cup {i}) = Cardinality(here) + 1
  BY <1>1, FS_AddElement
<1>3. Rank(s.objects, here \cup {i}, i) = 1
  <2>1. {k \in here \cup {i} : Above(s.objects, k, i)} = {i}
    BY SceneParts DEF Above
  <2>2. Cardinality({i}) = 1
    BY FS_Singleton
  <2> QED BY <2>1, <2>2 DEF Rank
<1>4. ASSUME NEW j \in here
      PROVE  Rank(s.objects, here \cup {i}, j)
             = Rank(s.objects, here, j) + 1
  <2> DEFINE above == {k \in here : Above(s.objects, k, j)}
  <2>1. {k \in here \cup {i} : Above(s.objects, k, j)} = above \cup {i}
    OBVIOUS
  <2>2. above \in SUBSET here /\ i \notin above
    OBVIOUS
  <2>3. Rank(s.objects, here, j) = Cardinality(above)
    BY DEF Rank
  <2>4. Rank(s.objects, here \cup {i}, j) = Cardinality(above \cup {i})
    BY <2>1 DEF Rank
  <2> HIDE DEF above
  <2>5. IsFiniteSet(above)
    BY <1>1, <2>2, FS_Subset
  <2> QED BY <2>2, <2>3, <2>4, <2>5, FS_AddElement
<1> QED BY <1>2, <1>3, <1>4

LEMMA StackedRaised ==
  ASSUME NEW s \in Scenes, NEW here \in SUBSET DOMAIN s.objects,
         NEW i \in DOMAIN s.objects, i \notin here,
         \A j \in here : /\ Above(s.objects, i, j)
                         /\ ~Above(s.objects, j, i),
         NEW x \in Int, NEW y \in Int, NEW entries \in Seq(Entries),
         Stacked(s, entries, here, x, y)
  PROVE  Stacked(s, <<Overlay(Seen(s.objects[i], Standing(s, i), x, y))>>
                    \o entries, here \cup {i}, x, y)
<1> DEFINE Shown(j) == Overlay(Seen(s.objects[j], Standing(s, j), x, y))
           n == Cardinality(here)
           under == Under(s, x, y)
           raised == <<Shown(i)>> \o entries
<1>1. Shown(i) \in Entries
  BY SceneParts, SeenIsPixel
<1>2. under \in Seq(Entries)
  BY UnderTyped
<1>3. /\ n \in Nat /\ Len(entries) = n + Len(under)
      /\ \A j \in here : entries[Rank(s.objects, here, j)] = Shown(j)
      /\ \A k \in DOMAIN under : entries[n + k] = under[k]
  BY Ranks DEF Stacked
<1>4. \A j \in here : Rank(s.objects, here, j) \in 1 .. n
  BY Ranks
<1> HIDE DEF Shown, under, n, raised
<1>5. /\ Len(raised) = Len(entries) + 1 /\ raised[1] = Shown(i)
      /\ \A k \in 1 .. Len(entries) : raised[k + 1] = entries[k]
  <2>1. <<Shown(i)>> \in Seq(Entries) /\ Len(<<Shown(i)>>) = 1
        /\ <<Shown(i)>>[1] = Shown(i)
    BY <1>1
  <2>2. \A k \in 1 .. 1 + Len(entries) :
           raised[k] = IF k <= 1 THEN <<Shown(i)>>[k] ELSE entries[k - 1]
    BY <2>1 DEF raised
  <2>3. Len(raised) = 1 + Len(entries)
    BY <2>1 DEF raised
  <2> QED BY <2>1, <2>2, <2>3
<1>6. /\ Cardinality(here \cup {i}) = n + 1
      /\ Rank(s.objects, here \cup {i}, i) = 1
      /\ \A j \in here : Rank(s.objects, here \cup {i}, j)
                         = Rank(s.objects, here, j) + 1
  BY RanksRaised DEF n
<1>7. Len(under) \in Nat /\ DOMAIN under = 1 .. Len(under)
  BY <1>2
<1>8. Len(raised) = Cardinality(here \cup {i}) + Len(under)
  BY <1>3, <1>5, <1>6, <1>7
<1>9. ASSUME NEW j \in here \cup {i}
      PROVE  raised[Rank(s.objects, here \cup {i}, j)] = Shown(j)
  <2>1. CASE j = i
    BY <2>1, <1>5, <1>6
  <2>2. CASE j \in here
    <3> DEFINE r == Rank(s.objects, here, j)
    <3>1. r \in 1 .. Len(entries) /\ entries[r] = Shown(j)
      BY <2>2, <1>3, <1>4, <1>7
    <3> QED BY <2>2, <3>1, <1>5, <1>6
  <2> QED BY <2>1, <2>2
<1>10. ASSUME NEW k \in DOMAIN under
       PROVE  raised[Cardinality(here \cup {i}) + k] = under[k]
  <2>1. n + k \in 1 .. Len(entries) /\ entries[n + k] = under[k]
    BY <1>3, <1>7
  <2> QED BY <2>1, <1>3, <1>5, <1>6, <1>7
<1> QED BY <1>8, <1>9, <1>10 DEF Stacked, raised, under, Shown
-----------------------------------------------------------------------------
(***************************************************************************)
(* Each step draws what it ought to.                                       *)
(***************************************************************************)
LEMMA BackTyped ==
  ASSUME NEW s \in Scenes, NEW x \in Int, NEW y \in Int
  PROVE  Back(s, x, y) \in Seq(Entries)
<1>1. Opaque(Seen(s.planar, s.planar.at, x, y)) \in Entries
  BY SceneParts, SeenIsPixel
<1>2. Opaque(Black) \in Entries
  BY ConstantsArePixels
<1> DEFINE e == Opaque(Seen(s.planar, s.planar.at, x, y))
<1> HIDE DEF e
<1>3. <<e>> \in Seq(Entries) /\ <<Opaque(Black)>> \in Seq(Entries)
  BY <1>1, <1>2 DEF e
<1> QED BY <1>3 DEF Back, e

LEMMA UnderFromBack ==
  ASSUME NEW s \in Scenes, NEW x \in Int, NEW y \in Int
  PROVE  Under(s, x, y) =
            IF Shows(s.pixel, s.pixel.at, x, y)
            THEN <<Overlay(Seen(s.pixel, s.pixel.at, x, y))>> \o Back(s, x, y)
            ELSE Back(s, x, y)
<1>1. Under(s, x, y) =
         (IF Shows(s.pixel, s.pixel.at, x, y)
          THEN <<Overlay(Seen(s.pixel, s.pixel.at, x, y))>> ELSE <<>>)
         \o Back(s, x, y)
  BY DEF Under, Back
<1>2. Back(s, x, y) \in Seq(Entries)
  BY BackTyped
<1>3. <<>> \o Back(s, x, y) = Back(s, x, y)
  BY <1>2
<1> QED BY <1>1, <1>3

LEMMA NoObjectYet ==
  ASSUME NEW s \in Scenes, NEW x \in Int, NEW y \in Int
  PROVE  Stacked(s, Under(s, x, y), Here(s, x, y) \cap Passed(s, 0, 1), x, y)
<1>1. Passed(s, 0, 1) = {}
  BY SceneParts, DisplayAssumption DEF Passed
<1>2. Cardinality({}) = 0
  BY FS_EmptySet
<1>3. Under(s, x, y) \in Seq(Entries)
  BY UnderTyped
<1>4. /\ Len(Under(s, x, y)) = 0 + Len(Under(s, x, y))
      /\ \A k \in DOMAIN Under(s, x, y) :
            Under(s, x, y)[0 + k] = Under(s, x, y)[k]
  BY <1>3
<1>5. Stacked(s, Under(s, x, y), {}, x, y)
  BY <1>2, <1>4 DEF Stacked
<1> QED BY <1>1, <1>5

LEMMA ClearKeeps ==
  ASSUME FrameInv, Clear
  PROVE  FrameInv'
<1>1. /\ Typed /\ step = "validate" /\ ValidScene(scene)
      /\ priority = 0 /\ object = 1
      /\ scene' = scene /\ step' = "planar"
      /\ priority' = priority /\ object' = object
      /\ composed' = Cleared(composed, scene.output_stride)
  BY DEF FrameInv, Clear
<1>2. /\ DOMAIN composed = OutputBytes(scene)
      /\ \A o \in OutputBytes(scene) :
            composed[o] \in Seq(Entries) /\ composed[o] = Kept
  BY <1>1 DEF Typed, FrameInv, ByteSound
<1>3. <<Opaque(Black)>> \in Seq(Entries)
  <2> DEFINE e == Opaque(Black)
  <2>1. e \in Entries
    BY ConstantsArePixels
  <2> HIDE DEF e
  <2>2. <<e>> \in Seq(Entries)
    BY <2>1
  <2> QED BY <2>2 DEF e
<1>4. composed' = [o \in OutputBytes(scene) |->
                      IF OnDisplay(scene, o) THEN <<Opaque(Black)>>
                      ELSE composed[o]]
  BY <1>1, <1>2 DEF Cleared, OnDisplay
<1>5. composed' \in [OutputBytes(scene) -> Seq(Entries)]
  BY <1>2, <1>3, <1>4
<1>6. Typed'
  BY <1>1, <1>5 DEF Typed
<1>7. ASSUME NEW o \in OutputBytes(scene)
      PROVE  ByteSound(scene, "planar", 0, 1, o, composed'[o])
  BY <1>2, <1>4 DEF ByteSound, DrawnSoFar
<1> QED BY <1>1, <1>6, <1>7 DEF FrameInv

LEMMA PlanarKeeps ==
  ASSUME FrameInv, DrawPlanar
  PROVE  FrameInv'
<1> DEFINE X(o) == o % scene.output_stride
           Y(o) == o \div scene.output_stride
<1>1. /\ Typed /\ step = "planar" /\ ValidScene(scene)
      /\ priority = 0 /\ object = 1
      /\ scene' = scene /\ step' = "pixel"
      /\ priority' = priority /\ object' = object
      /\ composed' = IF ~scene.planar.shown THEN composed
                     ELSE Drawn(scene.planar, scene.planar.at, composed,
                                scene.output_stride, FALSE)
  BY DEF FrameInv, DrawPlanar, DrawView
<1>2. /\ scene \in Scenes /\ IsRectangle(scene.planar)
      /\ scene.planar.at \in Int \X Int
      /\ composed \in [OutputBytes(scene) -> Seq(Entries)]
  BY <1>1, SceneParts DEF Typed
<1>3. /\ composed' \in [OutputBytes(scene) -> Seq(Entries)]
      /\ \A o \in OutputBytes(scene) :
            composed'[o] =
               IF /\ OnDisplay(scene, o)
                  /\ Shows(scene.planar, scene.planar.at, X(o), Y(o))
               THEN <<Opaque(Seen(scene.planar, scene.planar.at,
                                  X(o), Y(o)))>>
               ELSE composed[o]
  <2>1. CASE ~scene.planar.shown
    BY <2>1, <1>1, <1>2 DEF Shows
  <2>2. CASE scene.planar.shown
    <3>1. RegionFits(scene.planar)
      BY <2>2, <1>1 DEF ValidScene, ValidView
    <3> QED BY <2>2, <3>1, <1>1, <1>2, DrawnBytes
  <2> QED BY <2>1, <2>2
<1>4. Typed'
  BY <1>1, <1>3 DEF Typed
<1>5. ASSUME NEW o \in OutputBytes(scene)
      PROVE  ByteSound(scene, "pixel", 0, 1, o, composed'[o])
  <2>1. ByteSound(scene, "planar", 0, 1, o, composed[o])
    BY <1>1 DEF FrameInv
  <2> HIDE DEF X, Y
  <2>2. CASE OnDisplay(scene, o)
    <3>1. composed[o] = <<Opaque(Black)>>
      BY <2>1, <2>2 DEF ByteSound, DrawnSoFar
    <3>2. composed'[o] = Back(scene, X(o), Y(o))
      BY <1>3, <2>2, <3>1 DEF Back
    <3> QED BY <2>2, <3>2 DEF ByteSound, DrawnSoFar, X, Y
  <2>3. CASE ~OnDisplay(scene, o)
    BY <1>3, <2>1, <2>3 DEF ByteSound
  <2> QED BY <2>2, <2>3
<1> QED BY <1>1, <1>4, <1>5 DEF FrameInv

LEMMA PixelKeeps ==
  ASSUME FrameInv, DrawPixel
  PROVE  FrameInv'
<1> DEFINE X(o) == o % scene.output_stride
           Y(o) == o \div scene.output_stride
<1>1. /\ Typed /\ step = "pixel" /\ ValidScene(scene)
      /\ priority = 0 /\ object = 1
      /\ scene' = scene /\ step' = "objects"
      /\ priority' = priority /\ object' = object
      /\ composed' = IF ~scene.pixel.shown THEN composed
                     ELSE Drawn(scene.pixel, scene.pixel.at, composed,
                                scene.output_stride, TRUE)
  BY DEF FrameInv, DrawPixel, DrawView
<1>2. /\ scene \in Scenes /\ IsRectangle(scene.pixel)
      /\ scene.pixel.at \in Int \X Int
      /\ composed \in [OutputBytes(scene) -> Seq(Entries)]
  BY <1>1, SceneParts DEF Typed
<1>3. /\ composed' \in [OutputBytes(scene) -> Seq(Entries)]
      /\ \A o \in OutputBytes(scene) :
            composed'[o] =
               IF /\ OnDisplay(scene, o)
                  /\ Shows(scene.pixel, scene.pixel.at, X(o), Y(o))
               THEN <<Overlay(Seen(scene.pixel, scene.pixel.at,
                                   X(o), Y(o)))>> \o composed[o]
               ELSE composed[o]
  <2>1. CASE ~scene.pixel.shown
    BY <2>1, <1>1, <1>2 DEF Shows
  <2>2. CASE scene.pixel.shown
    <3>1. RegionFits(scene.pixel)
      BY <2>2, <1>1 DEF ValidScene, ValidView
    <3> QED BY <2>2, <3>1, <1>1, <1>2, DrawnBytes
  <2> QED BY <2>1, <2>2
<1>4. Typed'
  BY <1>1, <1>3 DEF Typed
<1>5. ASSUME NEW o \in OutputBytes(scene)
      PROVE  ByteSound(scene, "objects", 0, 1, o, composed'[o])
  <2>1. ByteSound(scene, "pixel", 0, 1, o, composed[o])
    BY <1>1 DEF FrameInv
  <2>2. X(o) \in Int /\ Y(o) \in Int
    BY <1>2, Coordinates DEF Scenes
  <2>3. CASE OnDisplay(scene, o)
    <3>1. composed[o] = Back(scene, X(o), Y(o))
      BY <2>1, <2>3 DEF ByteSound, DrawnSoFar
    <3> HIDE DEF X, Y
    <3>2. composed'[o] = Under(scene, X(o), Y(o))
      BY <1>2, <1>3, <2>2, <2>3, <3>1, UnderFromBack
    <3>3. Stacked(scene, composed'[o],
                  Here(scene, X(o), Y(o)) \cap Passed(scene, 0, 1),
                  X(o), Y(o))
      BY <1>2, <2>2, <3>2, NoObjectYet
    <3> QED BY <2>3, <3>3 DEF ByteSound, DrawnSoFar, X, Y
  <2>4. CASE ~OnDisplay(scene, o)
    BY <1>3, <2>1, <2>4 DEF ByteSound
  <2> QED BY <2>3, <2>4
<1> QED BY <1>1, <1>4, <1>5 DEF FrameInv

(***************************************************************************)
(* The objects passed: DrawObject passes its object if that has the        *)
(* priority at hand, and it lies above all that were passed before.        *)
(***************************************************************************)
LEMMA PassedNext ==
  ASSUME NEW s \in Scenes, NEW p \in Nat, NEW k \in DOMAIN s.objects
  PROVE  /\ s.objects[k].priority = p =>
               /\ Passed(s, p, k + 1) = Passed(s, p, k) \cup {k}
               /\ k \notin Passed(s, p, k)
               /\ \A j \in Passed(s, p, k) : /\ Above(s.objects, k, j)
                                             /\ ~Above(s.objects, j, k)
         /\ s.objects[k].priority # p => Passed(s, p, k + 1) = Passed(s, p, k)
<1>1. k \in Nat /\ \A i \in DOMAIN s.objects :
         i \in Nat /\ s.objects[i].priority \in Nat
  BY SMTT(30), SceneParts, DisplayAssumption
<1> QED BY <1>1 DEF Passed, Above

LEMMA ObjectKeeps ==
  ASSUME FrameInv, DrawObject
  PROVE  FrameInv'
<1> DEFINE X(o) == o % scene.output_stride
           Y(o) == o \div scene.output_stride
           thing == scene.objects[object]
           place == Standing(scene, object)
           draws == thing.shown /\ thing.priority = priority
<1>1. /\ Typed /\ step = "objects" /\ ValidScene(scene)
      /\ object <= Len(scene.objects)
      /\ scene' = scene /\ step' = "objects"
      /\ priority' = priority /\ object' = object + 1
      /\ composed' = IF draws
                     THEN Drawn(thing, Origin(thing, scene.camera), composed,
                                scene.output_stride, TRUE)
                     ELSE composed
  BY DEF FrameInv, DrawObject
<1>2. /\ scene \in Scenes /\ object \in DOMAIN scene.objects
      /\ priority \in Nat
      /\ composed \in [OutputBytes(scene) -> Seq(Entries)]
  BY <1>1, SceneParts DEF Typed
<1>3. /\ IsRectangle(thing) /\ place \in Int \X Int
      /\ Origin(thing, scene.camera) = place
  BY <1>2, SceneParts
<1>4. /\ composed' \in [OutputBytes(scene) -> Seq(Entries)]
      /\ \A o \in OutputBytes(scene) :
            composed'[o] =
               IF draws /\ OnDisplay(scene, o) /\ Shows(thing, place, X(o), Y(o))
               THEN <<Overlay(Seen(thing, place, X(o), Y(o)))>> \o composed[o]
               ELSE composed[o]
  <2>1. CASE ~draws
    <3>1. composed' = composed
      BY <2>1, <1>1
    <3> HIDE DEF draws
    <3> QED BY <2>1, <3>1, <1>2
  <2>2. CASE draws
    <3>1. Typed /\ RegionFits(thing) /\ thing.shown
      BY <2>2, <1>1, <1>2 DEF ValidScene, ValidObject
    <3>2. composed' = Drawn(thing, place, composed, scene.output_stride, TRUE)
      BY <2>2, <1>1, <1>3
    <3> HIDE DEF thing, place, draws
    <3>3. /\ composed' \in [OutputBytes(scene) -> Seq(Entries)]
          /\ \A o \in OutputBytes(scene) :
                composed'[o] =
                   IF OnDisplay(scene, o) /\ Shows(thing, place, X(o), Y(o))
                   THEN <<Overlay(Seen(thing, place, X(o), Y(o)))>>
                        \o composed[o]
                   ELSE composed[o]
      BY <3>1, <3>2, <1>3, DrawnBytes
    <3> HIDE DEF X, Y
    <3> QED BY <2>2, <3>3
  <2> QED BY <2>1, <2>2
<1>5. Typed'
  <2>1. object + 1 \in Nat \ {0}
    BY <1>1 DEF Typed
  <2> HIDE DEF draws
  <2> QED BY <1>1, <1>4, <2>1 DEF Typed
<1>6. ASSUME NEW o \in OutputBytes(scene)
      PROVE  ByteSound(scene, "objects", priority, object + 1, o, composed'[o])
  <2> DEFINE here == Here(scene, X(o), Y(o))
             before == Passed(scene, priority, object)
             after == Passed(scene, priority, object + 1)
  <2>1. ByteSound(scene, "objects", priority, object, o, composed[o])
    BY <1>1 DEF FrameInv
  <2>2. X(o) \in Int /\ Y(o) \in Int
    BY <1>2, Coordinates DEF Scenes
  <2>3. ASSUME OnDisplay(scene, o)
        PROVE  Stacked(scene, composed'[o], here \cap after, X(o), Y(o))
    <3>1. Stacked(scene, composed[o], here \cap before, X(o), Y(o))
      BY <2>1, <2>3 DEF ByteSound, DrawnSoFar
    <3>2. object \in here <=> Shows(thing, place, X(o), Y(o))
      BY <1>2 DEF Here
    <3>3. here \in SUBSET DOMAIN scene.objects
      BY DEF Here
    <3>4. /\ thing.priority = priority =>
                /\ after = before \cup {object} /\ object \notin before
                /\ \A j \in before : /\ Above(scene.objects, object, j)
                                     /\ ~Above(scene.objects, j, object)
          /\ thing.priority # priority => after = before
      BY <1>2, PassedNext
    <3>5. Shows(thing, place, X(o), Y(o)) => thing.shown
      BY DEF Shows
    <3>6. CASE draws /\ Shows(thing, place, X(o), Y(o))
      <4>1. here \cap after = (here \cap before) \cup {object}
        BY <3>2, <3>4, <3>6
      <4>2. composed'[o] = <<Overlay(Seen(thing, place, X(o), Y(o)))>>
                           \o composed[o]
        BY <1>4, <2>3, <3>6
      <4>3. /\ here \cap before \in SUBSET DOMAIN scene.objects
            /\ object \notin here \cap before
            /\ \A j \in here \cap before :
                  /\ Above(scene.objects, object, j)
                  /\ ~Above(scene.objects, j, object)
        BY <3>3, <3>4, <3>6
      <4>4. composed[o] \in Seq(Entries)
        BY <1>2
      <4> HIDE DEF here, before, after, X, Y
      <4>5. Stacked(scene, <<Overlay(Seen(thing, place, X(o), Y(o)))>>
                           \o composed[o],
                    (here \cap before) \cup {object}, X(o), Y(o))
        BY <1>2, <2>2, <3>1, <4>3, <4>4, StackedRaised
      <4> QED BY <4>1, <4>2, <4>5
    <3>7. CASE ~(draws /\ Shows(thing, place, X(o), Y(o)))
      <4>1. composed'[o] = composed[o]
        BY <1>4, <3>7
      <4>2. here \cap after = here \cap before
        <5> HIDE DEF here, before, after, X, Y, place
        <5> QED BY <3>2, <3>4, <3>5, <3>7
      <4> QED BY <3>1, <4>1, <4>2
    <3> QED BY <3>6, <3>7
  <2>4. CASE OnDisplay(scene, o)
    BY <2>3, <2>4 DEF ByteSound, DrawnSoFar
  <2>5. CASE ~OnDisplay(scene, o)
    BY <1>4, <2>1, <2>5 DEF ByteSound
  <2> QED BY <2>4, <2>5
<1> QED BY <1>1, <1>5, <1>6 DEF FrameInv

LEMMA PriorityKeeps ==
  ASSUME FrameInv, NextPriority
  PROVE  FrameInv'
<1>1. /\ Typed /\ step = "objects" /\ ValidScene(scene)
      /\ object > Len(scene.objects)
      /\ scene' = scene /\ step' = "objects"
      /\ priority' = priority + 1 /\ object' = 1
      /\ composed' = composed
  BY DEF FrameInv, NextPriority
<1>2. Passed(scene, priority + 1, 1) = Passed(scene, priority, object)
  <2>1. /\ DOMAIN scene.objects = 1 .. Len(scene.objects)
        /\ Len(scene.objects) \in Nat /\ priority \in Nat /\ object \in Nat
        /\ \A i \in DOMAIN scene.objects :
              scene.objects[i].priority \in Nat
    BY <1>1, SceneParts, DisplayAssumption DEF Typed
  <2> QED BY <1>1, <2>1 DEF Passed
<1>3. Typed'
  BY <1>1 DEF Typed
<1>4. ASSUME NEW o \in OutputBytes(scene)
      PROVE  ByteSound(scene, "objects", priority + 1, 1, o, composed[o])
  <2>1. ByteSound(scene, "objects", priority, object, o, composed[o])
    BY <1>1 DEF FrameInv
  <2> QED BY <1>2, <2>1 DEF ByteSound, DrawnSoFar
<1> QED BY <1>1, <1>3, <1>4 DEF FrameInv

LEMMA EndKeeps ==
  ASSUME FrameInv, EndFrame
  PROVE  FrameInv'
<1>1. /\ Typed /\ step = "objects" /\ ValidScene(scene)
      /\ priority > MaxPriority
      /\ scene' = scene /\ step' = "composed"
      /\ priority' = priority /\ object' = object
      /\ composed' = composed
  BY DEF FrameInv, EndFrame
<1>2. Passed(scene, priority, object) = DOMAIN scene.objects
  <2>1. /\ priority \in Nat /\ MaxPriority \in Nat
        /\ \A i \in DOMAIN scene.objects :
              scene.objects[i].priority \in 0 .. MaxPriority
    BY <1>1, SceneParts, DisplayAssumption DEF Typed
  <2> QED BY <1>1, <2>1 DEF Passed
<1>3. Typed'
  BY <1>1 DEF Typed
<1>4. ASSUME NEW o \in OutputBytes(scene)
      PROVE  ByteSound(scene, "composed", priority, object, o, composed[o])
  <2> DEFINE here == Here(scene, o % scene.output_stride,
                          o \div scene.output_stride)
  <2>1. ByteSound(scene, "objects", priority, object, o, composed[o])
    BY <1>1 DEF FrameInv
  <2>2. here \cap DOMAIN scene.objects = here
    BY DEF Here
  <2> QED BY <1>2, <2>1, <2>2 DEF ByteSound, DrawnSoFar
<1> QED BY <1>1, <1>3, <1>4 DEF FrameInv

LEMMA RefuseKeeps ==
  ASSUME FrameInv, RefuseScene
  PROVE  FrameInv'
<1>1. /\ Typed /\ step = "validate" /\ scene' = scene /\ step' = "refused"
      /\ priority' = priority /\ object' = object /\ composed' = composed
  BY DEF FrameInv, RefuseScene
<1>2. Typed'
  BY <1>1 DEF Typed
<1> QED BY <1>1, <1>2 DEF FrameInv, ByteSound
-----------------------------------------------------------------------------
(* The inductive invariant: what each byte of the output holds before      *)
(* every step of miga80_graphics_reference_compose.                        *)
THEOREM Invariance == Spec => []FrameInv
<1>1. Init => FrameInv
  <2> SUFFICES ASSUME Init PROVE FrameInv
    OBVIOUS
  <2>1. PICK j \in Jobs :
           FrameInit(j.scene, j.scene.output_stride * DisplayHeight)
    BY DEF Init
  <2>2. /\ scene = j.scene /\ step = "validate"
        /\ priority = 0 /\ object = 1
        /\ composed = [o \in OutputBytes(scene) |-> Kept]
    BY <2>1 DEF FrameInit, OutputBytes
  <2>3. Typed
    BY <2>2, JobsAssumption, ConstantsArePixels DEF Typed
  <2> QED BY <2>2, <2>3 DEF FrameInv, ByteSound
<1>2. FrameInv /\ [Next]_vars => FrameInv'
  <2> SUFFICES ASSUME FrameInv, [Next]_vars PROVE FrameInv'
    OBVIOUS
  <2>1. CASE FrameNext
    BY <2>1, RefuseKeeps, ClearKeeps, PlanarKeeps, PixelKeeps, ObjectKeeps,
       PriorityKeeps, EndKeeps DEF FrameNext
  <2>2. CASE UNCHANGED frameVars
    BY <2>2 DEF frameVars, FrameInv, Typed
  <2>3. FrameNext \/ UNCHANGED frameVars
    BY DEF Next, vars, Decode, RefuseDecode
  <2> QED BY <2>1, <2>2, <2>3
<1> QED BY <1>1, <1>2, PTL DEF Spec

(* The frame composed shows the objects and the views as the header says,  *)
(* higher priority and later entries on top, at every place of the         *)
(* display; the padding of its rows is left as it was, and a scene that is *)
(* refused has changed nothing (miga80_graphics_reference_compose).        *)
THEOREM FrameIsLayered == Spec => []TopmostShown
<1>1. FrameInv => TopmostShown
  <2> SUFFICES ASSUME FrameInv PROVE TopmostShown
    OBVIOUS
  <2>1. DOMAIN composed = OutputBytes(scene)
    BY DEF FrameInv, Typed
  <2>2. \A o \in OutputBytes(scene) :
           ByteSound(scene, step, priority, object, o, composed[o])
    BY DEF FrameInv
  <2>3. ASSUME step = "composed", NEW o \in OutputBytes(scene)
        PROVE  IF OnDisplay(scene, o)
               THEN Stacked(scene, composed[o],
                            Here(scene, o % scene.output_stride,
                                 o \div scene.output_stride),
                            o % scene.output_stride,
                            o \div scene.output_stride)
               ELSE composed[o] = Kept
    BY <2>2, <2>3 DEF ByteSound, DrawnSoFar
  <2>4. ASSUME step \in {"validate", "refused"}, NEW o \in OutputBytes(scene)
        PROVE  composed[o] = Kept
    BY <2>2, <2>4 DEF ByteSound
  <2> QED BY <2>1, <2>3, <2>4 DEF TopmostShown, OnDisplay
<1> QED BY <1>1, Invariance, PTL
-----------------------------------------------------------------------------
(***************************************************************************)
(* The conversions: that every byte of every plane holds, for every image, *)
(* what the last call that had to write it has to.  First bits and words,  *)
(* then the kernels, each against the same definition, then the addresses, *)
(* then the calls and the decoder.                                         *)
(***************************************************************************)
(***************************************************************************)
(* Bits of words.                                                          *)
(***************************************************************************)
IsByte(b) == b = [i \in 0 .. 7 |-> b[i]]
IsLong(w) == w = [i \in 0 .. 31 |-> w[i]]
Even(i, n) == (i \div n) % 2 = 0

(* Exclusive or twice is nothing, and or with a zero bit either.           *)
LEMMA FlipsAndEithers ==
  /\ \A a, b : Flip(a, Flip(a, b)) = b
  /\ \A a, b : Flip(a, Flip(b, a)) = b
  /\ \A a : Flip(a, Zero) = a
  /\ \A a : Either(a, Zero) = a /\ Either(Zero, a) = a
BY DEF Flip, Either, Zero

(* The bits of a byte or a word moved, masked and brought together.        *)
LEMMA MovedBits ==
  ASSUME NEW w, IsLong(w)
  PROVE  /\ \A n \in Nat : \A i \in 0 .. 31 :
              /\ Left(w, n)[i] = IF i - n \in 0 .. 31 THEN w[i - n] ELSE Zero
              /\ Right(w, n)[i] = IF i + n \in 0 .. 31 THEN w[i + n] ELSE Zero
              /\ Stripes(w, n)[i] = IF Even(i, n) THEN w[i] ELSE Zero
         /\ \A v : \A i \in 0 .. 31 : /\ Or(w, v)[i] = Either(w[i], v[i])
                                      /\ Xor(w, v)[i] = Flip(w[i], v[i])
         /\ \A n \in Nat : IsLong(Left(w, n)) /\ IsLong(Right(w, n)) /\ IsLong(Stripes(w, n))
         /\ \A v : IsLong(Or(w, v)) /\ IsLong(Xor(w, v))
<1>1. DOMAIN w = 0 .. 31
  BY DEF IsLong
<1> QED BY <1>1 DEF Left, Right, Stripes, At, Positions, Or, Xor, IsLong, Even

(* The bits of a byte shifted or masked.                                   *)
LEMMA MovedByte ==
  ASSUME NEW w, IsByte(w)
  PROVE  /\ \A n \in Nat : \A i \in 0 .. 7 :
              /\ Left(w, n)[i] = IF i - n \in 0 .. 7 THEN w[i - n] ELSE Zero
              /\ Right(w, n)[i] = IF i + n \in 0 .. 7 THEN w[i + n] ELSE Zero
              /\ Stripes(w, n)[i] = IF Even(i, n) THEN w[i] ELSE Zero
         /\ \A v : \A i \in 0 .. 7 : /\ Or(w, v)[i] = Either(w[i], v[i])
                                      /\ Xor(w, v)[i] = Flip(w[i], v[i])
         /\ \A n \in Nat : IsByte(Left(w, n)) /\ IsByte(Right(w, n)) /\ IsByte(Stripes(w, n))
         /\ \A v : IsByte(Or(w, v)) /\ IsByte(Xor(w, v))
<1>1. DOMAIN w = 0 .. 7
  BY DEF IsByte
<1> QED BY <1>1 DEF Left, Right, Stripes, At, Positions, Or, Xor, IsByte, Even

-----------------------------------------------------------------------------
(***************************************************************************)
(* A merge exchanges bits of two words.                                    *)
(***************************************************************************)
Distances == {1, 2, 4, 8, 16}

(* A distance from an even stripe is in an odd one, and back.              *)
LEMMA OddAndEven ==
  ASSUME NEW n \in Distances, NEW i \in 0 .. 31
  PROVE  /\ Even(i, n) => /\ i + n \in 0 .. 31 /\ ~Even(i + n, n)
                          /\ (i + n) - n = i
         /\ ~Even(i, n) => /\ i - n \in 0 .. 31 /\ Even(i - n, n)
                           /\ (i - n) + n = i
<1>1. CASE n = 1
  BY <1>1 DEF Even
<1>2. CASE n = 2
  BY <1>2 DEF Even
<1>3. CASE n = 4
  BY <1>3 DEF Even
<1>4. CASE n = 8
  BY <1>4 DEF Even
<1>5. CASE n = 16
  BY <1>5 DEF Even
<1> QED BY <1>1, <1>2, <1>3, <1>4, <1>5 DEF Distances

(* The word at the left and the word at the right of a merge.              *)
Gets(one, other, n, i) ==
    IF Even(i, n) THEN other[i + n] ELSE one[i]

(* Bit i of a word is bit j of another.                                    *)
Gives(one, other, n, i) ==
    IF Even(i, n) THEN other[i] ELSE one[i - n]

(* C2P4_MERGE: what an exchange leaves in both words, bit by bit.          *)
LEMMA ExchangedByShifts ==
  ASSUME NEW n \in Distances, NEW a, NEW b, IsLong(a), IsLong(b)
  PROVE  LET e == Stripes(Xor(a, Right(b, n)), n)
         IN  /\ IsLong(Xor(a, e)) /\ IsLong(Xor(b, Left(e, n)))
             /\ \A i \in 0 .. 31 : /\ Xor(a, e)[i] = Gets(a, b, n, i)
                                   /\ Xor(b, Left(e, n))[i] = Gives(a, b, n, i)
<1> DEFINE r == Right(b, n)
           x == Xor(a, r)
           e == Stripes(x, n)
           l == Left(e, n)
<1>0. n \in Nat /\ n # 0
  BY DEF Distances
<1>1. \A i \in 0 .. 31 : r[i] = IF i + n \in 0 .. 31 THEN b[i + n] ELSE Zero
  BY <1>0, MovedBits
<1> HIDE DEF r
<1>5. IsLong(x) /\ \A i \in 0 .. 31 : x[i] = Flip(a[i], r[i])
  BY MovedBits
<1> HIDE DEF x
<1>2. /\ \A i \in 0 .. 31 :
            e[i] = IF Even(i, n) THEN x[i] ELSE Zero
      /\ IsLong(e)
  BY <1>0, <1>5, MovedBits
<1> HIDE DEF e
<1>3. \A i \in 0 .. 31 : l[i] = IF i - n \in 0 .. 31 THEN e[i - n] ELSE Zero
  BY <1>0, <1>2, MovedBits
<1> HIDE DEF l
<1>7. ASSUME NEW i \in 0 .. 31
      PROVE  /\ Flip(a[i], e[i]) = Gets(a, b, n, i)
             /\ Flip(b[i], l[i]) = Gives(a, b, n, i)
  <2>1. CASE Even(i, n)
    <3>1. e[i] = Flip(a[i], b[i + n])
      <4>1. i + n \in 0 .. 31
        BY <2>1, OddAndEven
      <4>2. r[i] = b[i + n]
        BY <1>1, <4>1
      <4>3. e[i] = x[i] /\ x[i] = Flip(a[i], r[i])
        BY <1>2, <1>5, <2>1
      <4> QED BY <4>2, <4>3
    <3>2. l[i] = Zero
      <4>1. CASE i - n \in 0 .. 31
        <5> DEFINE k == i - n
        <5>1. k \in 0 .. 31 /\ k + n = i
          BY <4>1, <1>0
        <5>2. ~Even(k, n)
          <6> HIDE DEF k
          <6> QED BY <2>1, <5>1, OddAndEven
        <5> QED BY <1>2, <1>3, <4>1, <5>2
      <4> QED BY <1>3, <4>1
    <3> QED BY <2>1, <3>1, <3>2, FlipsAndEithers DEF Gets, Gives
  <2>2. CASE ~Even(i, n)
    <3>1. e[i] = Zero
      BY <1>2, <2>2
    <3>2. l[i] = Flip(a[i - n], b[i])
      <4> DEFINE k == i - n
      <4>1. k \in 0 .. 31 /\ Even(k, n) /\ k + n = i
        BY <2>2, OddAndEven
      <4>2. l[i] = e[k]
        BY <1>3, <4>1
      <4> HIDE DEF k
      <4>3. e[k] = Flip(a[k], b[i])
        BY <1>1, <1>2, <1>5, <4>1
      <4> QED BY <4>2, <4>3 DEF k
    <3> QED BY <2>2, <3>1, <3>2, FlipsAndEithers DEF Gets, Gives
  <2> QED BY <2>1, <2>2, OddAndEven
<1>8. /\ IsLong(Xor(a, e)) /\ IsLong(Xor(b, l))
      /\ \A i \in 0 .. 31 : /\ Xor(a, e)[i] = Flip(a[i], e[i])
                            /\ Xor(b, l)[i] = Flip(b[i], l[i])
  BY DEF Xor, Positions, IsLong
<1> QED BY <1>7, <1>8 DEF e, l, x, r

(* The same for the exchange of halves by swap.                            *)
LEMMA ExchangedByHalves ==
  ASSUME NEW a, NEW b, IsLong(a), IsLong(b)
  PROVE  LET e == Stripes(Xor(a, Swap(b)), 16)
         IN  /\ IsLong(Xor(a, e)) /\ IsLong(Xor(b, Swap(e)))
             /\ \A i \in 0 .. 31 : /\ Xor(a, e)[i] = Gets(a, b, 16, i)
                                   /\ Xor(b, Swap(e))[i] = Gives(a, b, 16, i)
<1> DEFINE r == Swap(b)
           x == Xor(a, r)
           e == Stripes(x, 16)
           l == Swap(e)
<1>1. \A i \in 0 .. 31 : r[i] = b[(i + 16) % 32]
  BY DEF Swap
<1> HIDE DEF r
<1>5. IsLong(x) /\ \A i \in 0 .. 31 : x[i] = Flip(a[i], r[i])
  BY MovedBits
<1> HIDE DEF x
<1>2. /\ \A i \in 0 .. 31 :
            e[i] = IF Even(i, 16) THEN x[i] ELSE Zero
      /\ IsLong(e)
  <2>1. IsLong(x)
    BY <1>5
  <2> QED BY <2>1 DEF Stripes, Positions, IsLong, Even
<1> HIDE DEF e
<1>3. \A i \in 0 .. 31 : l[i] = e[(i + 16) % 32]
  BY DEF Swap
<1> HIDE DEF l
<1>7. ASSUME NEW i \in 0 .. 31
      PROVE  /\ Flip(a[i], e[i]) = Gets(a, b, 16, i)
             /\ Flip(b[i], l[i]) = Gives(a, b, 16, i)
  <2>1. CASE i < 16
    <3>1. /\ Even(i, 16) /\ (i + 16) % 32 = i + 16
          /\ ~Even(i + 16, 16) /\ i + 16 \in 0 .. 31
      BY <2>1 DEF Even
    <3>2. e[i] = Flip(a[i], b[i + 16]) /\ l[i] = Zero
      BY <1>1, <1>2, <1>3, <1>5, <3>1
    <3> QED BY <3>1, <3>2, FlipsAndEithers DEF Gets, Gives
  <2>2. CASE i >= 16
    <3>1. /\ ~Even(i, 16) /\ (i + 16) % 32 = i - 16
          /\ Even(i - 16, 16) /\ i - 16 \in 0 .. 31
          /\ (i - 16 + 16) % 32 = i
      BY <2>2 DEF Even
    <3>2. e[i] = Zero /\ l[i] = Flip(a[i - 16], b[i])
      BY <1>1, <1>2, <1>3, <1>5, <3>1
    <3> QED BY <3>1, <3>2, FlipsAndEithers DEF Gets, Gives
  <2> QED BY <2>1, <2>2
<1>8. /\ IsLong(Xor(a, e)) /\ IsLong(Xor(b, l))
      /\ \A i \in 0 .. 31 : /\ Xor(a, e)[i] = Flip(a[i], e[i])
                            /\ Xor(b, l)[i] = Flip(b[i], l[i])
  BY DEF Xor, Positions, IsLong
<1> QED BY <1>7, <1>8 DEF e, l, x, r
-----------------------------------------------------------------------------
(***************************************************************************)
(* The network of merges, on four words.                                   *)
(***************************************************************************)
IsWords(ws) == /\ ws = [w \in 0 .. 3 |-> ws[w]]
               /\ \A w \in 0 .. 3 : IsLong(ws[w])

(* What a merge of two words by a distance is to do.                       *)
Exchanged(ws, left, right, n, m) ==
    /\ IsWords(m)
    /\ \A i \in 0 .. 31 : /\ m[left][i] = Gets(ws[left], ws[right], n, i)
                          /\ m[right][i] = Gives(ws[left], ws[right], n, i)
    /\ \A w \in 0 .. 3 \ {left, right} : m[w] = ws[w]

(* Every merge of the network does it, in C and in 68k registers.          *)
LEMMA Merged ==
  ASSUME NEW ws, IsWords(ws), NEW left \in 0 .. 3, NEW right \in 0 .. 3,
         left # right, NEW n \in Distances, NEW m68k \in BOOLEAN
  PROVE  Exchanged(ws, left, right, n, Merge(ws, left, right, n, m68k))
<1> DEFINE m == Merge(ws, left, right, n, m68k)
           a == ws[left]
           b == ws[right]
<1>1. IsLong(a) /\ IsLong(b) /\ DOMAIN ws = 0 .. 3
  BY DEF IsWords
<1>2. PICK u, v :
        /\ m = [ws EXCEPT ![left] = u, ![right] = v]
        /\ IsLong(u) /\ IsLong(v)
        /\ \A i \in 0 .. 31 : /\ u[i] = Gets(a, b, n, i)
                              /\ v[i] = Gives(a, b, n, i)
  <2>1. CASE m68k /\ n = 16
    <3>1. m = ExchangeHalves(ws, left, right)
      BY <2>1 DEF Merge
    <3>2. PICK e : e = Stripes(Xor(a, Swap(b)), 16)
      OBVIOUS
    <3>3. m = [ws EXCEPT ![left] = Xor(a, e), ![right] = Xor(b, Swap(e))]
      BY <3>1, <3>2 DEF ExchangeHalves
    <3>4. /\ IsLong(Xor(a, e)) /\ IsLong(Xor(b, Swap(e)))
          /\ \A i \in 0 .. 31 : /\ Xor(a, e)[i] = Gets(a, b, n, i)
                                /\ Xor(b, Swap(e))[i] = Gives(a, b, n, i)
      <4> HIDE DEF a, b
      <4> QED BY <1>1, <2>1, <3>2, ExchangedByHalves
    <3> QED BY <3>3, <3>4
  <2>2. CASE ~(m68k /\ n = 16)
    <3>1. m = Exchange(ws, left, right, n)
      BY <2>2 DEF Merge
    <3>2. PICK e : e = Stripes(Xor(a, Right(b, n)), n)
      OBVIOUS
    <3>3. m = [ws EXCEPT ![left] = Xor(a, e), ![right] = Xor(b, Left(e, n))]
      BY <3>1, <3>2 DEF Exchange
    <3>4. /\ IsLong(Xor(a, e)) /\ IsLong(Xor(b, Left(e, n)))
          /\ \A i \in 0 .. 31 : /\ Xor(a, e)[i] = Gets(a, b, n, i)
                                /\ Xor(b, Left(e, n))[i] = Gives(a, b, n, i)
      <4> HIDE DEF a, b
      <4> QED BY <1>1, <3>2, ExchangedByShifts
    <3> QED BY <3>3, <3>4
  <2> QED BY <2>1, <2>2
<1> HIDE DEF m
<1>3. m[left] = u /\ m[right] = v
  BY <1>1, <1>2
<1>4. \A w \in 0 .. 3 \ {left, right} : m[w] = ws[w]
  BY <1>1, <1>2
<1>5. IsWords(m)
  <2>1. m = [w \in 0 .. 3 |-> m[w]]
    BY <1>1, <1>2
  <2>2. \A w \in 0 .. 3 : IsLong(m[w])
    BY <1>2, <1>3, <1>4 DEF IsWords
  <2> QED BY <2>1, <2>2 DEF IsWords
<1> QED BY <1>2, <1>3, <1>4, <1>5 DEF m, Exchanged

(* Two merges of neighbours, and two of words two apart.                   *)
Neighbours(ws, n, m) ==
    /\ IsWords(m)
    /\ \A p \in {0, 1}, i \in 0 .. 31 :
          /\ m[2 * p][i] = Gets(ws[2 * p], ws[2 * p + 1], n, i)
          /\ m[2 * p + 1][i] = Gives(ws[2 * p], ws[2 * p + 1], n, i)

(* The four words, two by two.                                             *)
Halves(ws, n, m) ==
    /\ IsWords(m)
    /\ \A q \in {0, 1}, i \in 0 .. 31 :
          /\ m[q][i] = Gets(ws[q], ws[q + 2], n, i)
          /\ m[q + 2][i] = Gives(ws[q], ws[q + 2], n, i)

(* A pass of the words 0, 1 and 2, 3.                                      *)
LEMMA MergedNeighbours ==
  ASSUME NEW ws, IsWords(ws), NEW n \in Distances, NEW m68k \in BOOLEAN
  PROVE  Neighbours(ws, n, Merge(Merge(ws, 0, 1, n, m68k), 2, 3, n, m68k))
<1>1. PICK one : one = Merge(ws, 0, 1, n, m68k)
  OBVIOUS
<1>6. Exchanged(ws, 0, 1, n, one)
  BY <1>1, Merged
<1>2. /\ IsWords(one) /\ one[2] = ws[2] /\ one[3] = ws[3]
      /\ \A i \in 0 .. 31 : /\ one[0][i] = Gets(ws[0], ws[1], n, i)
                            /\ one[1][i] = Gives(ws[0], ws[1], n, i)
  BY <1>6 DEF Exchanged
<1>3. PICK m : m = Merge(one, 2, 3, n, m68k)
  OBVIOUS
<1>7. Exchanged(one, 2, 3, n, m)
  BY <1>2, <1>3, Merged
<1>4. /\ IsWords(m) /\ m[0] = one[0] /\ m[1] = one[1]
      /\ \A i \in 0 .. 31 : /\ m[2][i] = Gets(one[2], one[3], n, i)
                            /\ m[3][i] = Gives(one[2], one[3], n, i)
  BY <1>7 DEF Exchanged
<1>5. \A p \in {0, 1}, i \in 0 .. 31 :
         /\ m[2 * p][i] = Gets(ws[2 * p], ws[2 * p + 1], n, i)
         /\ m[2 * p + 1][i] = Gives(ws[2 * p], ws[2 * p + 1], n, i)
  <2>1. ASSUME NEW i \in 0 .. 31
        PROVE  /\ m[0][i] = Gets(ws[0], ws[1], n, i) /\ m[1][i] = Gives(ws[0], ws[1], n, i)
               /\ m[2][i] = Gets(ws[2], ws[3], n, i) /\ m[3][i] = Gives(ws[2], ws[3], n, i)
    BY <1>2, <1>4
  <2> QED BY <2>1
<1> QED BY <1>1, <1>3, <1>4, <1>5 DEF Neighbours

(* A pass of the words 0, 2 and 1, 3.                                      *)
LEMMA MergedHalves ==
  ASSUME NEW ws, IsWords(ws), NEW n \in Distances, NEW m68k \in BOOLEAN
  PROVE  Halves(ws, n, Merge(Merge(ws, 0, 2, n, m68k), 1, 3, n, m68k))
<1>1. PICK one : one = Merge(ws, 0, 2, n, m68k)
  OBVIOUS
<1>6. Exchanged(ws, 0, 2, n, one)
  BY <1>1, Merged
<1>2. /\ IsWords(one) /\ one[1] = ws[1] /\ one[3] = ws[3]
      /\ \A i \in 0 .. 31 : /\ one[0][i] = Gets(ws[0], ws[2], n, i)
                            /\ one[2][i] = Gives(ws[0], ws[2], n, i)
  BY <1>6 DEF Exchanged
<1>3. PICK m : m = Merge(one, 1, 3, n, m68k)
  OBVIOUS
<1>7. Exchanged(one, 1, 3, n, m)
  BY <1>2, <1>3, Merged
<1>4. /\ IsWords(m) /\ m[0] = one[0] /\ m[2] = one[2]
      /\ \A i \in 0 .. 31 : /\ m[1][i] = Gets(one[1], one[3], n, i)
                            /\ m[3][i] = Gives(one[1], one[3], n, i)
  BY <1>7 DEF Exchanged
<1>5. \A q \in {0, 1}, i \in 0 .. 31 :
         /\ m[q][i] = Gets(ws[q], ws[q + 2], n, i)
         /\ m[q + 2][i] = Gives(ws[q], ws[q + 2], n, i)
  <2>1. ASSUME NEW i \in 0 .. 31
        PROVE  /\ m[0][i] = Gets(ws[0], ws[2], n, i) /\ m[2][i] = Gives(ws[0], ws[2], n, i)
               /\ m[1][i] = Gets(ws[1], ws[3], n, i) /\ m[3][i] = Gives(ws[1], ws[3], n, i)
    BY <1>2, <1>4
  <2> QED BY <2>1
<1> QED BY <1>1, <1>3, <1>4, <1>5 DEF Halves

(* A bit by the digits of the number of its word and of its place.         *)
Digit == {0, 1}

(* A bit position by its binary digits, with a word by two more.           *)
Digits(p, q, a, b, c, d, e) == {p, q, a, b, c, d, e} \subseteq Digit

(* Where a bit of the four words is.                                       *)
BitAt(ws, p, q, a, b, c, d, e) ==
    ws[2 * p + q][16 * a + 8 * b + 4 * c + 2 * d + e]

(* After a pass: which bit is where.                                       *)
ExchangedEight(ws, m) ==
    /\ IsWords(m)
    /\ \A p, q, a, b, c, d, e : Digits(p, q, a, b, c, d, e) =>
          BitAt(m, p, q, a, b, c, d, e) = BitAt(ws, p, 1 - b, a, 1 - q, c, d, e)
ExchangedTwo(ws, m) ==
    /\ IsWords(m)
    /\ \A p, q, a, b, c, d, e : Digits(p, q, a, b, c, d, e) =>
          BitAt(m, p, q, a, b, c, d, e) = BitAt(ws, p, 1 - d, a, b, c, 1 - q, e)
ExchangedSixteen(ws, m) ==
    /\ IsWords(m)
    /\ \A p, q, a, b, c, d, e : Digits(p, q, a, b, c, d, e) =>
          BitAt(m, p, q, a, b, c, d, e) = BitAt(ws, 1 - a, q, 1 - p, b, c, d, e)
ExchangedFour(ws, m) ==
    /\ IsWords(m)
    /\ \A p, q, a, b, c, d, e : Digits(p, q, a, b, c, d, e) =>
          BitAt(m, p, q, a, b, c, d, e) = BitAt(ws, 1 - c, q, a, b, 1 - p, d, e)
ExchangedOne(ws, m) ==
    /\ IsWords(m)
    /\ \A p, q, a, b, c, d, e : Digits(p, q, a, b, c, d, e) =>
          BitAt(m, p, q, a, b, c, d, e) = BitAt(ws, 1 - e, q, a, b, c, d, 1 - p)

(* What the pass of two merges leaves: the bits exchanged as they are to be.*)
LEMMA ByEight ==
  ASSUME NEW ws, IsWords(ws), NEW m68k \in BOOLEAN,
         NEW m, m = Merge(Merge(ws, 0, 1, 8, m68k), 2, 3, 8, m68k)
  PROVE  ExchangedEight(ws, m)
<1>3. Neighbours(ws, 8, m)
  BY MergedNeighbours DEF Distances
<1>1. /\ IsWords(m)
      /\ \A p \in {0, 1}, i \in 0 .. 31 :
            /\ m[2 * p][i] = Gets(ws[2 * p], ws[2 * p + 1], 8, i)
            /\ m[2 * p + 1][i] = Gives(ws[2 * p], ws[2 * p + 1], 8, i)
  BY <1>3 DEF Neighbours
<1>2. ASSUME NEW p, NEW q, NEW a, NEW b, NEW c, NEW d, NEW e,
             Digits(p, q, a, b, c, d, e)
      PROVE  BitAt(m, p, q, a, b, c, d, e)
                 = BitAt(ws, p, 1 - b, a, 1 - q, c, d, e)
  <2> /\ p \in Digit /\ q \in Digit /\ a \in Digit /\ b \in Digit
      /\ c \in Digit /\ d \in Digit /\ e \in Digit
    BY <1>2 DEF Digits
  <2> DEFINE i == 16 * a + 8 * b + 4 * c + 2 * d + e
  <2>1. i \in 0 .. 31 /\ (Even(i, 8) <=> b = 0)
    BY DEF Digit, Even
  <2>2. /\ m[2 * p][i] = IF b = 0 THEN ws[2 * p + 1][i + 8] ELSE ws[2 * p][i]
        /\ m[2 * p + 1][i] = IF b = 0 THEN ws[2 * p + 1][i] ELSE ws[2 * p][i - 8]
    <3> HIDE DEF i
    <3> QED BY <1>1, <2>1 DEF Gets, Gives, Digit
  <2>3. CASE q = 0
    BY <2>2, <2>3 DEF BitAt, Digit
  <2>4. CASE q = 1
    BY <2>2, <2>4 DEF BitAt, Digit
  <2> QED BY <2>3, <2>4 DEF Digit
<1> QED BY <1>1, <1>2 DEF ExchangedEight

LEMMA ByTwo ==
  ASSUME NEW ws, IsWords(ws), NEW m68k \in BOOLEAN,
         NEW m, m = Merge(Merge(ws, 0, 1, 2, m68k), 2, 3, 2, m68k)
  PROVE  ExchangedTwo(ws, m)
<1>3. Neighbours(ws, 2, m)
  BY MergedNeighbours DEF Distances
<1>1. /\ IsWords(m)
      /\ \A p \in {0, 1}, i \in 0 .. 31 :
            /\ m[2 * p][i] = Gets(ws[2 * p], ws[2 * p + 1], 2, i)
            /\ m[2 * p + 1][i] = Gives(ws[2 * p], ws[2 * p + 1], 2, i)
  BY <1>3 DEF Neighbours
<1>2. ASSUME NEW p, NEW q, NEW a, NEW b, NEW c, NEW d, NEW e,
             Digits(p, q, a, b, c, d, e)
      PROVE  BitAt(m, p, q, a, b, c, d, e)
                 = BitAt(ws, p, 1 - d, a, b, c, 1 - q, e)
  <2> /\ p \in Digit /\ q \in Digit /\ a \in Digit /\ b \in Digit
      /\ c \in Digit /\ d \in Digit /\ e \in Digit
    BY <1>2 DEF Digits
  <2> DEFINE i == 16 * a + 8 * b + 4 * c + 2 * d + e
  <2>1. i \in 0 .. 31 /\ (Even(i, 2) <=> d = 0)
    BY DEF Digit, Even
  <2>2. /\ m[2 * p][i] = IF d = 0 THEN ws[2 * p + 1][i + 2] ELSE ws[2 * p][i]
        /\ m[2 * p + 1][i] = IF d = 0 THEN ws[2 * p + 1][i] ELSE ws[2 * p][i - 2]
    <3> HIDE DEF i
    <3> QED BY <1>1, <2>1 DEF Gets, Gives, Digit
  <2>3. CASE q = 0
    BY <2>2, <2>3 DEF BitAt, Digit
  <2>4. CASE q = 1
    BY <2>2, <2>4 DEF BitAt, Digit
  <2> QED BY <2>3, <2>4 DEF Digit
<1> QED BY <1>1, <1>2 DEF ExchangedTwo

LEMMA BySixteen ==
  ASSUME NEW ws, IsWords(ws), NEW m68k \in BOOLEAN,
         NEW m, m = Merge(Merge(ws, 0, 2, 16, m68k), 1, 3, 16, m68k)
  PROVE  ExchangedSixteen(ws, m)
<1>3. Halves(ws, 16, m)
  BY MergedHalves DEF Distances
<1>1. /\ IsWords(m)
      /\ \A q \in {0, 1}, i \in 0 .. 31 :
            /\ m[q][i] = Gets(ws[q], ws[q + 2], 16, i)
            /\ m[q + 2][i] = Gives(ws[q], ws[q + 2], 16, i)
  BY <1>3 DEF Halves
<1>2. ASSUME NEW p, NEW q, NEW a, NEW b, NEW c, NEW d, NEW e,
             Digits(p, q, a, b, c, d, e)
      PROVE  BitAt(m, p, q, a, b, c, d, e)
                 = BitAt(ws, 1 - a, q, 1 - p, b, c, d, e)
  <2> /\ p \in Digit /\ q \in Digit /\ a \in Digit /\ b \in Digit
      /\ c \in Digit /\ d \in Digit /\ e \in Digit
    BY <1>2 DEF Digits
  <2> DEFINE i == 16 * a + 8 * b + 4 * c + 2 * d + e
  <2>1. i \in 0 .. 31 /\ (Even(i, 16) <=> a = 0)
    BY DEF Digit, Even
  <2>2. /\ m[q][i] = IF a = 0 THEN ws[q + 2][i + 16] ELSE ws[q][i]
        /\ m[q + 2][i] = IF a = 0 THEN ws[q + 2][i] ELSE ws[q][i - 16]
    <3> HIDE DEF i
    <3> QED BY <1>1, <2>1 DEF Gets, Gives, Digit
  <2>3. CASE p = 0
    BY <2>2, <2>3 DEF BitAt, Digit
  <2>4. CASE p = 1
    BY <2>2, <2>4 DEF BitAt, Digit
  <2> QED BY <2>3, <2>4 DEF Digit
<1> QED BY <1>1, <1>2 DEF ExchangedSixteen

LEMMA ByFour ==
  ASSUME NEW ws, IsWords(ws), NEW m68k \in BOOLEAN,
         NEW m, m = Merge(Merge(ws, 0, 2, 4, m68k), 1, 3, 4, m68k)
  PROVE  ExchangedFour(ws, m)
<1>3. Halves(ws, 4, m)
  BY MergedHalves DEF Distances
<1>1. /\ IsWords(m)
      /\ \A q \in {0, 1}, i \in 0 .. 31 :
            /\ m[q][i] = Gets(ws[q], ws[q + 2], 4, i)
            /\ m[q + 2][i] = Gives(ws[q], ws[q + 2], 4, i)
  BY <1>3 DEF Halves
<1>2. ASSUME NEW p, NEW q, NEW a, NEW b, NEW c, NEW d, NEW e,
             Digits(p, q, a, b, c, d, e)
      PROVE  BitAt(m, p, q, a, b, c, d, e)
                 = BitAt(ws, 1 - c, q, a, b, 1 - p, d, e)
  <2> /\ p \in Digit /\ q \in Digit /\ a \in Digit /\ b \in Digit
      /\ c \in Digit /\ d \in Digit /\ e \in Digit
    BY <1>2 DEF Digits
  <2> DEFINE i == 16 * a + 8 * b + 4 * c + 2 * d + e
  <2>1. i \in 0 .. 31 /\ (Even(i, 4) <=> c = 0)
    BY DEF Digit, Even
  <2>2. /\ m[q][i] = IF c = 0 THEN ws[q + 2][i + 4] ELSE ws[q][i]
        /\ m[q + 2][i] = IF c = 0 THEN ws[q + 2][i] ELSE ws[q][i - 4]
    <3> HIDE DEF i
    <3> QED BY <1>1, <2>1 DEF Gets, Gives, Digit
  <2>3. CASE p = 0
    BY <2>2, <2>3 DEF BitAt, Digit
  <2>4. CASE p = 1
    BY <2>2, <2>4 DEF BitAt, Digit
  <2> QED BY <2>3, <2>4 DEF Digit
<1> QED BY <1>1, <1>2 DEF ExchangedFour

LEMMA ByOne ==
  ASSUME NEW ws, IsWords(ws), NEW m68k \in BOOLEAN,
         NEW m, m = Merge(Merge(ws, 0, 2, 1, m68k), 1, 3, 1, m68k)
  PROVE  ExchangedOne(ws, m)
<1>3. Halves(ws, 1, m)
  BY MergedHalves DEF Distances
<1>1. /\ IsWords(m)
      /\ \A q \in {0, 1}, i \in 0 .. 31 :
            /\ m[q][i] = Gets(ws[q], ws[q + 2], 1, i)
            /\ m[q + 2][i] = Gives(ws[q], ws[q + 2], 1, i)
  BY <1>3 DEF Halves
<1>2. ASSUME NEW p, NEW q, NEW a, NEW b, NEW c, NEW d, NEW e,
             Digits(p, q, a, b, c, d, e)
      PROVE  BitAt(m, p, q, a, b, c, d, e)
                 = BitAt(ws, 1 - e, q, a, b, c, d, 1 - p)
  <2> /\ p \in Digit /\ q \in Digit /\ a \in Digit /\ b \in Digit
      /\ c \in Digit /\ d \in Digit /\ e \in Digit
    BY <1>2 DEF Digits
  <2> DEFINE i == 16 * a + 8 * b + 4 * c + 2 * d + e
  <2>1. i \in 0 .. 31 /\ (Even(i, 1) <=> e = 0)
    BY DEF Digit, Even
  <2>2. /\ m[q][i] = IF e = 0 THEN ws[q + 2][i + 1] ELSE ws[q][i]
        /\ m[q + 2][i] = IF e = 0 THEN ws[q + 2][i] ELSE ws[q][i - 1]
    <3> HIDE DEF i
    <3> QED BY <1>1, <2>1 DEF Gets, Gives, Digit
  <2>3. CASE p = 0
    BY <2>2, <2>3 DEF BitAt, Digit
  <2>4. CASE p = 1
    BY <2>2, <2>4 DEF BitAt, Digit
  <2> QED BY <2>3, <2>4 DEF Digit
<1> QED BY <1>1, <1>2 DEF ExchangedOne
-----------------------------------------------------------------------------
(* The ten merges of transpose32x4, one after the other.                   *)
LEMMA TransposedStepwise ==
  ASSUME NEW ws, NEW m68k \in BOOLEAN
  PROVE  \E u, v, x, y :
            /\ u = Merge(Merge(ws, 0, 1, 8, m68k), 2, 3, 8, m68k)
            /\ v = Merge(Merge(u, 0, 1, 2, m68k), 2, 3, 2, m68k)
            /\ x = Merge(Merge(v, 0, 2, 16, m68k), 1, 3, 16, m68k)
            /\ y = Merge(Merge(x, 0, 2, 4, m68k), 1, 3, 4, m68k)
            /\ Transposed(ws, m68k)
                  = Merge(Merge(y, 0, 2, 1, m68k), 1, 3, 1, m68k)
<1> DEFINE M(w, k) == Merge(w, Passes[k][1], Passes[k][2], Passes[k][3], m68k)
           P(f) == f = [k \in 0 .. Len(Passes) |->
                          IF k = 0 THEN ws ELSE M(f[k - 1], k)]
<1>0. Len(Passes) = 10
  BY DEF Passes
<1>1. \E f : P(f)
  <2>1. PICK s1 : s1 = M(ws, 1)
    OBVIOUS
  <2>2. PICK s2 : s2 = M(s1, 2)
    OBVIOUS
  <2>3. PICK s3 : s3 = M(s2, 3)
    OBVIOUS
  <2>4. PICK s4 : s4 = M(s3, 4)
    OBVIOUS
  <2>5. PICK s5 : s5 = M(s4, 5)
    OBVIOUS
  <2>6. PICK s6 : s6 = M(s5, 6)
    OBVIOUS
  <2>7. PICK s7 : s7 = M(s6, 7)
    OBVIOUS
  <2>8. PICK s8 : s8 = M(s7, 8)
    OBVIOUS
  <2>9. PICK s9 : s9 = M(s8, 9)
    OBVIOUS
  <2>10. PICK s10 : s10 = M(s9, 10)
    OBVIOUS
  <2> HIDE DEF M
  <2> DEFINE f == [k \in 0 .. Len(Passes) |->
                     <<ws, s1, s2, s3, s4, s5, s6, s7, s8, s9, s10>>[k + 1]]
  <2>11. /\ f[0] = ws /\ f[1] = s1 /\ f[2] = s2 /\ f[3] = s3 /\ f[4] = s4
         /\ f[5] = s5 /\ f[6] = s6 /\ f[7] = s7 /\ f[8] = s8 /\ f[9] = s9
         /\ f[10] = s10
    BY <1>0
  <2>12. f = [k \in 0 .. Len(Passes) |-> f[k]]
    OBVIOUS
  <2> HIDE DEF f
  <2>13. ASSUME NEW k \in 0 .. Len(Passes)
         PROVE  f[k] = IF k = 0 THEN ws ELSE M(f[k - 1], k)
    <3>1. k \in {0, 1, 2, 3, 4, 5, 6, 7, 8, 9, 10}
      BY <1>0
    <3> QED
      BY <2>1, <2>2, <2>3, <2>4, <2>5, <2>6, <2>7, <2>8, <2>9, <2>10, <2>11, <3>1
  <2>14. P(f)
    BY <2>12, <2>13
  <2> QED BY <2>14
<1>2. PICK f : f = CHOOSE g : P(g)
  OBVIOUS
<1>3. P(f)
  BY <1>1, <1>2
<1>4. Transposed(ws, m68k) = f[10]
  BY <1>0, <1>2 DEF Transposed
<1>5. /\ f[0] = ws
      /\ \A k \in 1 .. 10 : f[k] = M(f[k - 1], k)
  <2>1. DOMAIN f = 0 .. 10
    BY <1>0, <1>3
  <2> HIDE DEF M
  <2> QED BY <1>0, <1>3, <2>1
<1> HIDE DEF P
<1>6. /\ f[1] = M(f[0], 1) /\ f[2] = M(f[1], 2) /\ f[3] = M(f[2], 3)
      /\ f[4] = M(f[3], 4) /\ f[5] = M(f[4], 5) /\ f[6] = M(f[5], 6)
      /\ f[7] = M(f[6], 7) /\ f[8] = M(f[7], 8) /\ f[9] = M(f[8], 9)
      /\ f[10] = M(f[9], 10)
  <2> HIDE DEF M
  <2> QED BY <1>5
<1>7. \A w : /\ M(w, 1) = Merge(w, 0, 1, 8, m68k) /\ M(w, 2) = Merge(w, 2, 3, 8, m68k)
             /\ M(w, 3) = Merge(w, 0, 1, 2, m68k) /\ M(w, 4) = Merge(w, 2, 3, 2, m68k)
             /\ M(w, 5) = Merge(w, 0, 2, 16, m68k) /\ M(w, 6) = Merge(w, 1, 3, 16, m68k)
             /\ M(w, 7) = Merge(w, 0, 2, 4, m68k) /\ M(w, 8) = Merge(w, 1, 3, 4, m68k)
             /\ M(w, 9) = Merge(w, 0, 2, 1, m68k) /\ M(w, 10) = Merge(w, 1, 3, 1, m68k)
  BY DEF Passes
<1> HIDE DEF M
<1> QED BY <1>4, <1>5, <1>6, <1>7

(* The network as a whole: where each bit of each word ends.               *)
LEMMA Transposition ==
  ASSUME NEW ws, IsWords(ws), NEW m68k \in BOOLEAN
  PROVE  /\ IsWords(Transposed(ws, m68k))
         /\ \A p, q, a, b, c, d, e : Digits(p, q, a, b, c, d, e) =>
               BitAt(Transposed(ws, m68k), p, q, a, b, c, d, e)
                   = BitAt(ws, 1 - a, 1 - b, c, d, e, 1 - q, 1 - p)
<1>1. PICK u, v, x, y :
        /\ u = Merge(Merge(ws, 0, 1, 8, m68k), 2, 3, 8, m68k)
        /\ v = Merge(Merge(u, 0, 1, 2, m68k), 2, 3, 2, m68k)
        /\ x = Merge(Merge(v, 0, 2, 16, m68k), 1, 3, 16, m68k)
        /\ y = Merge(Merge(x, 0, 2, 4, m68k), 1, 3, 4, m68k)
        /\ Transposed(ws, m68k)
              = Merge(Merge(y, 0, 2, 1, m68k), 1, 3, 1, m68k)
  BY TransposedStepwise
<1>2. PICK z : z = Transposed(ws, m68k)
  OBVIOUS
<1>3. ExchangedEight(ws, u)
  BY <1>1, ByEight
<1>4. ExchangedTwo(u, v)
  BY <1>1, <1>3, ByTwo DEF ExchangedEight
<1>5. ExchangedSixteen(v, x)
  BY <1>1, <1>4, BySixteen DEF ExchangedTwo
<1>6. ExchangedFour(x, y)
  BY <1>1, <1>5, ByFour DEF ExchangedSixteen
<1>7. ExchangedOne(y, z)
  BY <1>1, <1>2, <1>6, ByOne DEF ExchangedFour
<1>8. ASSUME NEW p, NEW q, NEW a, NEW b, NEW c, NEW d, NEW e,
             Digits(p, q, a, b, c, d, e)
      PROVE  BitAt(z, p, q, a, b, c, d, e)
                 = BitAt(ws, 1 - a, 1 - b, c, d, e, 1 - q, 1 - p)
  <2>1. \A n \in Digit : 1 - n \in Digit /\ 1 - (1 - n) = n
    BY DEF Digit
  <2>0. PICK p1, q1, a1, b1, c1, d1, e1 :
          /\ p1 = 1 - p /\ q1 = 1 - q /\ a1 = 1 - a /\ b1 = 1 - b
          /\ c1 = 1 - c /\ d1 = 1 - d /\ e1 = 1 - e
    OBVIOUS
  <2>7. /\ 1 - e1 = e /\ 1 - c1 = c /\ 1 - d1 = d
        /\ Digits(e1, q, a, b, c, d, p1) /\ Digits(c1, q, a, b, e, d, p1)
        /\ Digits(a1, q, c, b, e, d, p1) /\ Digits(a1, d1, c, b, e, q1, p1)
    BY <1>8, <2>0, <2>1 DEF Digits
  <2>2. BitAt(z, p, q, a, b, c, d, e) = BitAt(y, e1, q, a, b, c, d, p1)
    BY <1>7, <1>8, <2>0 DEF ExchangedOne
  <2>3. BitAt(y, e1, q, a, b, c, d, p1) = BitAt(x, c1, q, a, b, e, d, p1)
    BY <1>6, <2>0, <2>7 DEF ExchangedFour
  <2>4. BitAt(x, c1, q, a, b, e, d, p1) = BitAt(v, a1, q, c, b, e, d, p1)
    BY <1>5, <2>0, <2>7 DEF ExchangedSixteen
  <2>5. BitAt(v, a1, q, c, b, e, d, p1) = BitAt(u, a1, d1, c, b, e, q1, p1)
    BY <1>4, <2>0, <2>7 DEF ExchangedTwo
  <2>6. BitAt(u, a1, d1, c, b, e, q1, p1) = BitAt(ws, a1, b1, c, d, e, q1, p1)
    BY <1>3, <2>0, <2>7 DEF ExchangedEight
  <2> QED BY <2>0, <2>2, <2>3, <2>4, <2>5, <2>6
<1> QED BY <1>2, <1>7, <1>8 DEF ExchangedOne

-----------------------------------------------------------------------------
(***************************************************************************)
(* The kernels.  PixelBit is the bit b of the pixel p of a group.          *)
(***************************************************************************)
PixelBit(layer, bytes, p, b) ==
    IF layer.format = "packed4" THEN bytes[p \div 2 + 1][b + 4 * (1 - (p % 2))]
    ELSE IF layer.format = "fb8" /\ layer.playfield = "front"
         THEN bytes[p + 1][b + 4]
    ELSE bytes[p + 1][b]

(* What a kernel is to make of the bits of a group of pixels.              *)
Makes(layer, bytes, n, made) ==
    \A b \in LogicalBits, k \in 1 .. n :
        /\ IsByte(made[b][k])
        /\ \A i \in 0 .. 7 : made[b][k][i] = PixelBit(layer, bytes, 8 * k - 1 - i, b)

IsBytes(bytes, n) == /\ bytes = [k \in 1 .. n |-> bytes[k]]
                     /\ \A k \in 1 .. n : IsByte(bytes[k])

LEMMA ReferenceMakes ==
  ASSUME NEW layer, NEW bytes, IsBytes(bytes, BytesOf(layer.format, 8))
  PROVE  Makes(layer, bytes, 1, Reference(layer, bytes))
<1> SUFFICES ASSUME NEW b \in LogicalBits
             PROVE  LET made == Reference(layer, bytes)[b][1]
                    IN /\ IsByte(made)
                       /\ \A i \in 0 .. 7 : made[i] = PixelBit(layer, bytes, 7 - i, b)
  BY DEF Makes
<1> DEFINE byte(p) == IF layer.format = "packed4"
                      THEN bytes[p \div 2 + 1] ELSE bytes[p + 1]
           shift(p) == IF \/ layer.format = "packed4" /\ p % 2 = 0
                          \/ layer.format = "fb8" /\ layer.playfield = "front"
                       THEN 4 ELSE 0
           made == [i \in 0 .. 7 |-> At(byte(7 - i), b + shift(7 - i))]
<1>1. Reference(layer, bytes)[b][1] = made
  BY DEF Reference
<1>2. ASSUME NEW p \in 0 .. 7
      PROVE  At(byte(p), b + shift(p)) = PixelBit(layer, bytes, p, b)
  <2>1. p \div 2 + 1 \in 1 .. 4 /\ p + 1 \in 1 .. 8 /\ p % 2 \in {0, 1}
    OBVIOUS
  <2>2. b \in 0 .. 7 /\ b + 4 \in 0 .. 7 /\ b \in 0 .. 3
    BY DEF LogicalBits
  <2>3. IsByte(byte(p))
    <3>1. \A k \in 1 .. BytesOf(layer.format, 8) : IsByte(bytes[k])
      BY DEF IsBytes
    <3>2. BytesOf(layer.format, 8) = IF layer.format = "packed4" THEN 4 ELSE 8
      BY DEF BytesOf
    <3> QED BY <2>1, <3>1, <3>2
  <2>4. DOMAIN byte(p) = 0 .. 7
    <3> HIDE DEF byte
    <3> QED BY <2>3 DEF IsByte
  <2>5. At(byte(p), b + shift(p)) = byte(p)[b + shift(p)]
    <3>1. b + shift(p) \in 0 .. 7
      BY <2>2
    <3> HIDE DEF byte, shift
    <3> QED BY <2>4, <3>1 DEF At, Positions
  <2> QED BY <2>1, <2>2, <2>5 DEF PixelBit
<1> HIDE DEF byte, shift
<1>3. \A i \in 0 .. 7 : 7 - i \in 0 .. 7 /\ made[i] = PixelBit(layer, bytes, 7 - i, b)
  BY <1>2
<1>4. IsByte(made)
  BY DEF IsByte
<1> QED BY <1>1, <1>3, <1>4
-----------------------------------------------------------------------------

(* A bit of a word by its byte, its half and its place.                    *)
LEMMA Nibbles ==
  ASSUME NEW i \in 0 .. 31
  PROVE  \E u \in 0 .. 3, v \in Digit, r \in 0 .. 3 :
           /\ i = 8 * u + 4 * v + r
           /\ i \div 8 = u /\ i % 8 = 4 * v + r /\ i \div 4 = 2 * u + v /\ i % 4 = r
<1> DEFINE u == i \div 8
           v == (i \div 4) % 2
           r == i % 4
<1>1. /\ u \in 0 .. 3 /\ v \in Digit /\ r \in 0 .. 3
      /\ i = 8 * u + 4 * v + r
      /\ i \div 8 = u /\ i % 8 = 4 * v + r /\ i \div 4 = 2 * u + v /\ i % 4 = r
  BY DEF Digit
<1> QED BY <1>1

(* A part of a group, byte by byte.                                        *)
LEMMA Parts ==
  ASSUME NEW n \in Nat, NEW bytes, IsBytes(bytes, n),
         NEW m \in Nat, NEW k \in Nat, m + k <= n
  PROVE  LET part == SubSeq(bytes, m + 1, m + k)
         IN  /\ IsBytes(part, k)
             /\ \A j \in 1 .. k : part[j] = bytes[m + j]
<1> DEFINE S == {bytes[j] : j \in 1 .. n}
           part == SubSeq(bytes, m + 1, m + k)
<1>1. bytes \in Seq(S) /\ Len(bytes) = n
  <2>1. bytes \in [1 .. n -> S]
    BY DEF IsBytes
  <2> HIDE DEF S
  <2>2. bytes \in Seq(S)
    BY <2>1, SeqDef
  <2>3. DOMAIN bytes = 1 .. Len(bytes) /\ Len(bytes) \in Nat
    BY <2>2, LenProperties
  <2>4. DOMAIN bytes = 1 .. n
    BY <2>1
  <2> QED BY <2>1, <2>2, <2>3, <2>4
<1>2. /\ m + 1 \in 1 .. Len(bytes) + 1
      /\ m + k \in (m + 1) - 1 .. Len(bytes)
      /\ m + k - (m + 1) + 1 = k
  BY <1>1
<1> HIDE DEF S
<1>3. /\ part \in Seq(S) /\ Len(part) = k
      /\ \A j \in 1 .. k : part[j] = bytes[(m + 1) + j - 1]
  BY <1>1, <1>2, SubSeqProperties
<1> HIDE DEF part
<1>4. \A j \in 1 .. k : part[j] = bytes[m + j] /\ m + j \in 1 .. n
  <2>1. \A j \in 1 .. k : (m + 1) + j - 1 = m + j /\ m + j \in 1 .. n
    OBVIOUS
  <2> QED BY <1>3, <2>1
<1>5. part = [j \in 1 .. k |-> part[j]]
  BY <1>3, LenProperties
<1>6. \A j \in 1 .. k : IsByte(part[j])
  BY <1>4 DEF IsBytes
<1> QED BY <1>4, <1>5, <1>6 DEF IsBytes, part

(* A quarter of a group.                                                   *)
LEMMA Grouped ==
  ASSUME NEW n \in {4, 8}, NEW bytes, IsBytes(bytes, 4 * n), NEW w \in 0 .. 3
  PROVE  LET group == SubSeq(bytes, w * n + 1, (w + 1) * n)
         IN  /\ IsBytes(group, n)
             /\ \A k \in 1 .. n : group[k] = bytes[w * n + k]
<1> DEFINE m == w * n
<1>1. /\ m \in Nat /\ (w + 1) * n = m + n /\ m + n <= 4 * n
      /\ n \in Nat /\ 4 * n \in Nat
  OBVIOUS
<1> HIDE DEF m
<1>2. LET group == SubSeq(bytes, m + 1, m + n)
      IN  IsBytes(group, n) /\ \A k \in 1 .. n : group[k] = bytes[m + k]
  BY <1>1, Parts
<1> QED BY <1>1, <1>2 DEF m

(* pack_byte4_group: the word of eight pixels.                             *)
LEMMA PackedWord ==
  ASSUME NEW bytes, IsBytes(bytes, 8)
  PROVE  /\ IsLong(PackGroup(bytes))
         /\ \A i \in 0 .. 31 : PackGroup(bytes)[i] = bytes[8 - i \div 4][i % 4]
<1> DEFINE P(f) == f = [p \in 0 .. 8 |->
                          [i \in 0 .. 31 |-> IF p = 0 THEN Zero
                                            ELSE IF i < 4 THEN bytes[p][i]
                                            ELSE f[p - 1][i - 4]]]
           G(p) == [i \in 0 .. 31 |-> IF i < 4 * p THEN bytes[p - i \div 4][i % 4]
                                      ELSE Zero]
           g == [p \in 0 .. 8 |-> G(p)]
           N(p, w) == [i \in 0 .. 31 |-> IF p = 0 THEN Zero
                                         ELSE IF i < 4 THEN bytes[p][i]
                                         ELSE w[i - 4]]
<1>1. ASSUME NEW p \in 0 .. 8
      PROVE  G(p) = N(p, G(p - 1))
  <2>1. ASSUME NEW i \in 0 .. 31
        PROVE  G(p)[i] = IF p = 0 THEN Zero
                         ELSE IF i < 4 THEN bytes[p][i]
                         ELSE G(p - 1)[i - 4]
    <3>1. i < 4 => i \div 4 = 0 /\ i % 4 = i
      OBVIOUS
    <3>2. i >= 4 => /\ (i - 4) \div 4 = i \div 4 - 1 /\ (i - 4) % 4 = i % 4
                    /\ i - 4 \in 0 .. 31
      OBVIOUS
    <3>3. CASE i < 4
      BY <3>1, <3>3
    <3>4. CASE i >= 4
      <4>1. p - 1 - (i - 4) \div 4 = p - i \div 4
        BY <3>2, <3>4
      <4>2. i - 4 < 4 * (p - 1) <=> i < 4 * p
        OBVIOUS
      <4> QED BY <3>2, <3>4, <4>1, <4>2
    <3> QED BY <3>3, <3>4
  <2> QED BY <2>1
<1> HIDE DEF G
<1>2. P(g)
  <2>1. ASSUME NEW p \in 0 .. 8
        PROVE  G(p) = N(p, g[p - 1])
    <3>1. CASE p = 0
      BY <1>1, <3>1
    <3>2. CASE p # 0
      <4>1. g[p - 1] = G(p - 1)
        BY <3>2
      <4> QED BY <1>1, <4>1
    <3> QED BY <3>1, <3>2
  <2> QED BY <2>1
<1>3. PICK f : f = CHOOSE h : P(h)
  OBVIOUS
<1>4. P(f)
  <2> HIDE DEF P, g
  <2> QED BY <1>2, <1>3
<1>5. PackGroup(bytes) = f[8]
  BY <1>3 DEF PackGroup
<1>6. ASSUME NEW p \in 0 .. 8
      PROVE  f[p] = N(p, f[p - 1])
  BY <1>4
<1> HIDE DEF P, g
<1>7. \A w : N(0, w) = N(0, G(-1))
  OBVIOUS
<1> HIDE DEF N
<1>8. f[0] = G(0)
  BY <1>1, <1>6, <1>7
<1>9. \A p \in 1 .. 8 : f[p - 1] = G(p - 1) => f[p] = G(p)
  BY <1>1, <1>6
<1>10. f[8] = G(8)
  <2>1. f[1] = G(1)
    BY <1>8, <1>9
  <2>2. f[2] = G(2)
    BY <1>9, <2>1
  <2>3. f[3] = G(3)
    BY <1>9, <2>2
  <2>4. f[4] = G(4)
    BY <1>9, <2>3
  <2>5. f[5] = G(5)
    BY <1>9, <2>4
  <2>6. f[6] = G(6)
    BY <1>9, <2>5
  <2>7. f[7] = G(7)
    BY <1>9, <2>6
  <2> QED BY <1>9, <2>7
<1> QED BY <1>5, <1>10 DEF G, IsLong

(* load_be32: the word of eight packed pixels.                             *)
LEMMA LoadedLong ==
  ASSUME NEW bytes, IsBytes(bytes, 4)
  PROVE  /\ IsLong(BigEndian(bytes))
         /\ \A u \in 0 .. 3, j \in 0 .. 7 :
               BigEndian(bytes)[8 * u + j] = bytes[4 - u][j]
<1>1. \A u \in 0 .. 3, j \in 0 .. 7 :
         8 * u + j \in 0 .. 31 /\ (8 * u + j) \div 8 = u /\ (8 * u + j) % 8 = j
  OBVIOUS
<1> QED BY <1>1 DEF BigEndian, IsLong

(* Moved, masked and combined words.                                       *)
IsRight(r, w, n) ==
    /\ IsLong(r)
    /\ \A i \in 0 .. 31 : r[i] = IF i + n \in 0 .. 31 THEN w[i + n] ELSE Zero
IsStriped(s, w, n) ==
    /\ IsLong(s)
    /\ \A i \in 0 .. 31 : s[i] = IF Even(i, n) THEN w[i] ELSE Zero
IsEither(o, w, v) ==
    IsLong(o) /\ \A i \in 0 .. 31 : o[i] = Either(w[i], v[i])

(* They hold of every word.                                                *)
LEMMA LongsMoved ==
  ASSUME NEW w, IsLong(w)
  PROVE  /\ \A n \in Nat : IsRight(Right(w, n), w, n) /\ IsStriped(Stripes(w, n), w, n)
         /\ \A v : IsEither(Or(w, v), w, v)
BY MovedBits DEF IsRight, IsStriped, IsEither

(* Four byte4 pixels squeezed into the low half of a word.                 *)
LEMMA SqueezedHalf ==
  ASSUME NEW bytes, IsBytes(bytes, 4)
  PROVE  /\ IsLong(PackHalf(bytes))
         /\ \A c \in 0 .. 3, r \in 0 .. 3 : PackHalf(bytes)[4 * c + r] = bytes[4 - c][r]
         /\ \A i \in 16 .. 31 : PackHalf(bytes)[i] = Zero
<1> DEFINE word == BigEndian(bytes)
           m1 == Stripes(word, 4)
           r1 == Right(m1, 4)
           x1 == Or(m1, r1)
           m2 == Stripes(x1, 8)
           r2 == Right(m2, 8)
           x2 == Or(m2, r2)
           h == Stripes(x2, 16)
<1>1. PackHalf(bytes) = h
  BY DEF PackHalf
<1>2. /\ IsLong(word)
      /\ \A u \in 0 .. 3, j \in 0 .. 7 : word[8 * u + j] = bytes[4 - u][j]
  BY LoadedLong
<1> HIDE DEF word
<1>3. IsLong(m1) /\ \A i \in 0 .. 31 : m1[i] = IF Even(i, 4) THEN word[i] ELSE Zero
  BY <1>2, LongsMoved DEF IsStriped
<1> HIDE DEF m1
<1>4. IsLong(r1) /\ \A i \in 0 .. 31 : r1[i] = IF i + 4 \in 0 .. 31 THEN m1[i + 4] ELSE Zero
  BY <1>3, LongsMoved DEF IsRight
<1> HIDE DEF r1
<1>5. IsLong(x1) /\ \A i \in 0 .. 31 : x1[i] = Either(m1[i], r1[i])
  BY <1>3, LongsMoved DEF IsEither
<1> HIDE DEF x1
<1>6. IsLong(m2) /\ \A i \in 0 .. 31 : m2[i] = IF Even(i, 8) THEN x1[i] ELSE Zero
  BY <1>5, LongsMoved DEF IsStriped
<1> HIDE DEF m2
<1>7. IsLong(r2) /\ \A i \in 0 .. 31 : r2[i] = IF i + 8 \in 0 .. 31 THEN m2[i + 8] ELSE Zero
  BY <1>6, LongsMoved DEF IsRight
<1> HIDE DEF r2
<1>8. IsLong(x2) /\ \A i \in 0 .. 31 : x2[i] = Either(m2[i], r2[i])
  BY <1>6, LongsMoved DEF IsEither
<1> HIDE DEF x2
<1>9. IsLong(h) /\ \A i \in 0 .. 31 : h[i] = IF Even(i, 16) THEN x2[i] ELSE Zero
  BY <1>8, LongsMoved DEF IsStriped
<1> HIDE DEF h
<1>10. ASSUME NEW u \in 0 .. 3, NEW r \in 0 .. 3
       PROVE  x1[8 * u + r] = word[8 * u + r]
  <2>1. 8 * u + r \in 0 .. 31 /\ 8 * u + r + 4 \in 0 .. 31
    OBVIOUS
  <2>2. Even(8 * u + r, 4) /\ ~Even(8 * u + r + 4, 4)
    BY DEF Even
  <2>3. m1[8 * u + r] = word[8 * u + r] /\ m1[8 * u + r + 4] = Zero
    BY <1>3, <2>1, <2>2
  <2>4. r1[8 * u + r] = Zero
    BY <1>4, <2>1, <2>3
  <2> QED BY <1>5, <2>1, <2>3, <2>4, FlipsAndEithers
<1>11. ASSUME NEW u \in 0 .. 2, NEW r \in 0 .. 3
       PROVE  x1[8 * u + 4 + r] = word[8 * u + 8 + r]
  <2>1. /\ 8 * u + 4 + r \in 0 .. 31 /\ 8 * u + 8 + r \in 0 .. 31
        /\ (8 * u + 4 + r) + 4 = 8 * u + 8 + r
    OBVIOUS
  <2>2. ~Even(8 * u + 4 + r, 4) /\ Even(8 * u + 8 + r, 4)
    BY DEF Even
  <2>3. m1[8 * u + 4 + r] = Zero /\ m1[8 * u + 8 + r] = word[8 * u + 8 + r]
    BY <1>3, <2>1, <2>2
  <2>4. r1[8 * u + 4 + r] = word[8 * u + 8 + r]
    BY <1>4, <2>1, <2>3
  <2> QED BY <1>5, <2>1, <2>3, <2>4, FlipsAndEithers
<1>12. /\ \A i \in 0 .. 7 : m2[i] = x1[i] /\ m2[i + 8] = Zero /\ m2[i + 16] = x1[i + 16]
  <2>1. \A i \in 0 .. 7 : /\ Even(i, 8) /\ ~Even(i + 8, 8) /\ Even(i + 16, 8)
                          /\ i \in 0 .. 31 /\ i + 8 \in 0 .. 31 /\ i + 16 \in 0 .. 31
    BY DEF Even
  <2> QED BY <1>6, <2>1
<1>13. \A i \in 0 .. 7 : h[i] = x1[i] /\ h[i + 8] = x1[i + 16]
  <2>1. \A i \in 0 .. 7 : /\ Even(i, 16) /\ Even(i + 8, 16)
                          /\ i \in 0 .. 31 /\ i + 8 \in 0 .. 31 /\ (i + 8) + 8 \in 0 .. 31
                          /\ (i + 8) + 8 = i + 16
    BY DEF Even
  <2>2. \A i \in 0 .. 7 : h[i] = x2[i] /\ h[i + 8] = x2[i + 8]
    BY <1>9, <2>1
  <2>3. \A i \in 0 .. 7 : r2[i] = Zero /\ r2[i + 8] = x1[i + 16]
    BY <1>7, <1>12, <2>1
  <2> QED BY <1>8, <1>12, <2>1, <2>2, <2>3, FlipsAndEithers
<1>14. \A i \in 16 .. 31 : h[i] = Zero
  <2>1. \A i \in 16 .. 31 : i \in 0 .. 31 /\ ~Even(i, 16)
    BY DEF Even
  <2> QED BY <1>9, <2>1
<1>15. ASSUME NEW c \in 0 .. 3, NEW r \in 0 .. 3
       PROVE  h[4 * c + r] = bytes[4 - c][r]
  <2>0. word[8 * c + r] = bytes[4 - c][r]
    BY <1>2
  <2>1. CASE c = 0
    <3>1. h[r] = x1[r] /\ x1[r] = word[r]
      BY <1>10, <1>13
    <3> QED BY <2>0, <2>1, <3>1
  <2>2. CASE c = 1
    <3>1. h[4 + r] = x1[4 + r] /\ x1[4 + r] = word[8 + r]
      BY <1>11, <1>13
    <3> QED BY <2>0, <2>2, <3>1
  <2>3. CASE c = 2
    <3>1. h[8 + r] = x1[16 + r] /\ x1[16 + r] = word[16 + r]
      BY <1>10, <1>13
    <3> QED BY <2>0, <2>3, <3>1
  <2>4. CASE c = 3
    <3>1. h[12 + r] = x1[20 + r] /\ x1[20 + r] = word[24 + r]
      BY <1>11, <1>13
    <3> QED BY <2>0, <2>4, <3>1
  <2> QED BY <2>1, <2>2, <2>3, <2>4
<1> QED BY <1>1, <1>9, <1>14, <1>15

(* C2P4_PACK_BYTE4: the same word, made in registers.                      *)
LEMMA PackedWordM68k ==
  ASSUME NEW bytes, IsBytes(bytes, 8)
  PROVE  /\ IsLong(PackGroupM68k(bytes))
         /\ \A i \in 0 .. 31 : PackGroupM68k(bytes)[i] = bytes[8 - i \div 4][i % 4]
<1> DEFINE first == SubSeq(bytes, 1, 4)
           last == SubSeq(bytes, 5, 8)
           high == PackHalf(first)
           low == PackHalf(last)
           swapped == Swap(high)
           word == Or(swapped, low)
<1>1. /\ IsBytes(first, 4) /\ IsBytes(last, 4)
      /\ \A k \in 1 .. 4 : first[k] = bytes[k] /\ last[k] = bytes[4 + k]
  <2>1. PICK n \in Nat, k \in Nat, zero \in Nat : n = 8 /\ k = 4 /\ zero = 0
    OBVIOUS
  <2>2. IsBytes(bytes, n) /\ zero + k <= n /\ k + k <= n
    BY <2>1
  <2>3. LET part == SubSeq(bytes, zero + 1, zero + k)
        IN  IsBytes(part, k) /\ \A j \in 1 .. k : part[j] = bytes[zero + j]
    BY <2>2, Parts
  <2>4. LET part == SubSeq(bytes, k + 1, k + k)
        IN  IsBytes(part, k) /\ \A j \in 1 .. k : part[j] = bytes[k + j]
    BY <2>2, Parts
  <2>5. /\ SubSeq(bytes, zero + 1, zero + k) = first
        /\ SubSeq(bytes, k + 1, k + k) = last
    BY <2>1
  <2> HIDE DEF first, last
  <2>6. IsBytes(first, 4) /\ IsBytes(last, 4)
    BY <2>1, <2>3, <2>4, <2>5
  <2>7. ASSUME NEW j \in 1 .. 4
        PROVE  first[j] = bytes[j] /\ last[j] = bytes[4 + j]
    <3>1. zero + j = j /\ k + j = 4 + j /\ j \in 1 .. k
      BY <2>1
    <3> QED BY <2>3, <2>4, <2>5, <3>1
  <2> QED BY <2>6, <2>7
<1>2. PackGroupM68k(bytes) = word
  BY DEF PackGroupM68k
<1> HIDE DEF first, last
<1>3. /\ IsLong(high)
      /\ \A c \in 0 .. 3, r \in 0 .. 3 : high[4 * c + r] = first[4 - c][r]
      /\ \A i \in 16 .. 31 : high[i] = Zero
  BY <1>1, SqueezedHalf
<1>4. /\ IsLong(low)
      /\ \A c \in 0 .. 3, r \in 0 .. 3 : low[4 * c + r] = last[4 - c][r]
      /\ \A i \in 16 .. 31 : low[i] = Zero
  BY <1>1, SqueezedHalf
<1> HIDE DEF high, low
<1>5. IsLong(swapped) /\ \A i \in 0 .. 31 : swapped[i] = high[(i + 16) % 32]
  BY DEF Swap, IsLong
<1> HIDE DEF swapped
<1>6. IsLong(word) /\ \A i \in 0 .. 31 : word[i] = Either(swapped[i], low[i])
  BY <1>5, LongsMoved DEF IsEither
<1> HIDE DEF word
<1>7. ASSUME NEW i \in 0 .. 31
      PROVE  word[i] = bytes[8 - i \div 4][i % 4]
  <2>1. PICK u \in 0 .. 3, v \in Digit, r \in 0 .. 3 :
          /\ i = 8 * u + 4 * v + r
          /\ i \div 8 = u /\ i % 8 = 4 * v + r /\ i \div 4 = 2 * u + v /\ i % 4 = r
    BY Nibbles
  <2>2. CASE i < 16
    <3>1. (i + 16) % 32 \in 16 .. 31
      BY <2>2
    <3>2. swapped[i] = Zero
      BY <1>3, <1>5, <3>1
    <3>3. PICK c \in 0 .. 3 : c = 2 * u + v /\ i = 4 * c + r
      BY <2>1, <2>2 DEF Digit
    <3>4. low[i] = last[4 - c][r]
      <4>1. low[4 * c + r] = last[4 - c][r]
        BY <1>4
      <4> QED BY <3>3, <4>1
    <3>5. 4 - c \in 1 .. 4 /\ 4 + (4 - c) = 8 - c
      OBVIOUS
    <3>6. last[4 - c] = bytes[8 - c]
      BY <1>1, <3>5
    <3> QED BY <1>6, <2>1, <3>2, <3>3, <3>4, <3>6, FlipsAndEithers
  <2>3. CASE i >= 16
    <3>1. (i + 16) % 32 = i - 16 /\ i \in 16 .. 31
      BY <2>3
    <3>2. low[i] = Zero /\ swapped[i] = high[i - 16]
      BY <1>4, <1>5, <3>1
    <3>3. PICK c \in 0 .. 3 : c = 2 * u + v - 4 /\ i - 16 = 4 * c + r
      BY <2>1, <2>3 DEF Digit
    <3>4. high[i - 16] = first[4 - c][r]
      <4>1. high[4 * c + r] = first[4 - c][r]
        BY <1>3
      <4> QED BY <3>3, <4>1
    <3>5. 4 - c \in 1 .. 4 /\ 8 - (2 * u + v) = 4 - c
      BY <3>3, <2>1 DEF Digit
    <3>6. first[4 - c] = bytes[4 - c]
      BY <1>1, <3>5
    <3> QED BY <1>6, <2>1, <3>2, <3>4, <3>5, <3>6, FlipsAndEithers
  <2> QED BY <2>2, <2>3
<1> QED BY <1>2, <1>6, <1>7

(* The four words of 32 pixels, whichever way they are loaded.             *)
WordOfGroup(layer, bytes, w, m68k) ==
    LET group(n) == SubSeq(bytes, w * n + 1, (w + 1) * n)
    IN  IF layer.format = "packed4" THEN BigEndian(group(4))
        ELSE IF m68k THEN PackGroupM68k(group(8))
        ELSE PackGroup(group(8))

LEMMA GroupLoaded ==
  ASSUME NEW layer, layer.format \in {"packed4", "byte4"}, NEW bytes,
         IsBytes(bytes, BytesOf(layer.format, 32)), NEW w \in 0 .. 3, NEW m68k \in BOOLEAN
  PROVE  /\ IsLong(WordOfGroup(layer, bytes, w, m68k))
         /\ \A i \in 0 .. 31 :
               WordOfGroup(layer, bytes, w, m68k)[i]
                  = PixelBit(layer, bytes, 8 * w + 7 - i \div 4, i % 4)
<1>1. CASE layer.format = "packed4"
  <2>1. PICK group : group = SubSeq(bytes, w * 4 + 1, (w + 1) * 4)
    OBVIOUS
  <2>2. IsBytes(bytes, 4 * 4)
    BY <1>1 DEF BytesOf
  <2>3. IsBytes(group, 4) /\ \A k \in 1 .. 4 : group[k] = bytes[w * 4 + k]
    BY <2>1, <2>2, Grouped
  <2>4. /\ IsLong(BigEndian(group))
        /\ \A u \in 0 .. 3, j \in 0 .. 7 : BigEndian(group)[8 * u + j] = group[4 - u][j]
    BY <2>3, LoadedLong
  <2>5. ASSUME NEW i \in 0 .. 31
        PROVE  BigEndian(group)[i] = PixelBit(layer, bytes, 8 * w + 7 - i \div 4, i % 4)
    <3>1. PICK u \in 0 .. 3, v \in Digit, r \in 0 .. 3 :
            /\ i = 8 * u + 4 * v + r
            /\ i \div 8 = u /\ i % 8 = 4 * v + r /\ i \div 4 = 2 * u + v /\ i % 4 = r
      BY Nibbles
    <3>2. PICK p : p = 8 * w + 7 - i \div 4
      OBVIOUS
    <3>3. p \div 2 + 1 = w * 4 + (4 - u) /\ r + 4 * (1 - (p % 2)) = 4 * v + r
      BY <3>1, <3>2 DEF Digit
    <3>4. 4 * v + r \in 0 .. 7 /\ 4 - u \in 1 .. 4 /\ i = 8 * u + (4 * v + r)
      BY <3>1 DEF Digit
    <3>5. BigEndian(group)[i] = bytes[w * 4 + (4 - u)][4 * v + r]
      BY <2>3, <2>4, <3>4
    <3>6. PixelBit(layer, bytes, p, r) = bytes[w * 4 + (4 - u)][4 * v + r]
      BY <1>1, <3>3 DEF PixelBit
    <3> QED BY <3>1, <3>2, <3>5, <3>6
  <2> QED BY <1>1, <2>1, <2>4, <2>5 DEF WordOfGroup
<1>2. CASE layer.format = "byte4"
  <2>1. PICK group : group = SubSeq(bytes, w * 8 + 1, (w + 1) * 8)
    OBVIOUS
  <2>2. IsBytes(bytes, 4 * 8)
    BY <1>2 DEF BytesOf
  <2>3. IsBytes(group, 8) /\ \A k \in 1 .. 8 : group[k] = bytes[w * 8 + k]
    BY <2>1, <2>2, Grouped
  <2>4. PICK word : word = IF m68k THEN PackGroupM68k(group) ELSE PackGroup(group)
    OBVIOUS
  <2>5. IsLong(word) /\ \A i \in 0 .. 31 : word[i] = group[8 - i \div 4][i % 4]
    BY <2>3, <2>4, PackedWord, PackedWordM68k
  <2>6. ASSUME NEW i \in 0 .. 31
        PROVE  word[i] = PixelBit(layer, bytes, 8 * w + 7 - i \div 4, i % 4)
    <3>1. /\ 8 - i \div 4 \in 1 .. 8
          /\ w * 8 + (8 - i \div 4) = (8 * w + 7 - i \div 4) + 1
      OBVIOUS
    <3>2. word[i] = bytes[w * 8 + (8 - i \div 4)][i % 4]
      BY <2>3, <2>5, <3>1
    <3> QED BY <1>2, <3>1, <3>2 DEF PixelBit
  <2> QED BY <1>2, <2>1, <2>4, <2>5, <2>6 DEF WordOfGroup
<1> QED BY <1>1, <1>2

(* A pixel of a byte by its binary digits.                                 *)
LEMMA ThreeDigits ==
  ASSUME NEW i \in 0 .. 7
  PROVE  \E c \in Digit, d \in Digit, e \in Digit : i = 4 * c + 2 * d + e
<1> DEFINE c == i \div 4
           d == (i \div 2) % 2
           e == i % 2
<1>1. c \in Digit /\ d \in Digit /\ e \in Digit /\ i = 4 * c + 2 * d + e
  BY DEF Digit
<1> QED BY <1>1

(* The bytes a transposed word is stored as.                               *)
LEMMA BytesOfWords ==
  ASSUME NEW word, IsLong(word), NEW k \in 1 .. 4
  PROVE  /\ IsByte(ByteOf(word, k))
         /\ \A i \in 0 .. 7 : ByteOf(word, k)[i] = word[8 * (4 - k) + i]
BY DEF ByteOf, IsByte

(* The 32-pixel network makes the bytes of the four planes.                *)
LEMMA Mask32Makes ==
  ASSUME NEW layer, layer.format \in {"packed4", "byte4"}, NEW bytes,
         IsBytes(bytes, BytesOf(layer.format, 32)), NEW m68k \in BOOLEAN
  PROVE  Makes(layer, bytes, 4, Mask32(layer, bytes, m68k))
<1> DEFINE word(w) == WordOfGroup(layer, bytes, w, m68k)
           ws == [w \in 0 .. 3 |-> word(w)]
           z == Transposed(ws, m68k)
<1>1. Mask32(layer, bytes, m68k) =
         [b \in LogicalBits |-> [k \in 1 .. 4 |-> ByteOf(z[StoreOrder[b + 1]], k)]]
  BY DEF Mask32, WordOfGroup
<1>2. ASSUME NEW w \in 0 .. 3
      PROVE  /\ IsLong(word(w))
             /\ \A i \in 0 .. 31 :
                   word(w)[i] = PixelBit(layer, bytes, 8 * w + 7 - i \div 4, i % 4)
  BY GroupLoaded
<1> HIDE DEF word
<1>3. IsWords(ws)
  BY <1>2 DEF IsWords
<1>4. \A w \in 0 .. 3 : \A i \in 0 .. 31 :
         ws[w][i] = PixelBit(layer, bytes, 8 * w + 7 - i \div 4, i % 4)
  BY <1>2
<1> HIDE DEF ws
<1>5. /\ IsWords(z)
      /\ \A p, q, a, b, c, d, e : Digits(p, q, a, b, c, d, e) =>
            BitAt(z, p, q, a, b, c, d, e)
                = BitAt(ws, 1 - a, 1 - b, c, d, e, 1 - q, 1 - p)
  BY <1>3, Transposition
<1> HIDE DEF z
<1>6. ASSUME NEW b \in LogicalBits, NEW k \in 1 .. 4
      PROVE  LET made == ByteOf(z[StoreOrder[b + 1]], k)
             IN /\ IsByte(made)
                /\ \A i \in 0 .. 7 : made[i] = PixelBit(layer, bytes, 8 * k - 1 - i, b)
  <2>1. PICK p \in Digit, q \in Digit :
           StoreOrder[b + 1] = 2 * p + q /\ b = 2 * (1 - q) + (1 - p)
    BY DEF StoreOrder, LogicalBits, Digit
  <2>2. PICK w \in 0 .. 3 : w = 2 * p + q
    BY DEF Digit
  <2>3. /\ IsByte(ByteOf(z[w], k))
        /\ \A i \in 0 .. 7 : ByteOf(z[w], k)[i] = z[w][8 * (4 - k) + i]
    BY <1>5, BytesOfWords DEF IsWords
  <2>4. ASSUME NEW i \in 0 .. 7
        PROVE  z[w][8 * (4 - k) + i] = PixelBit(layer, bytes, 8 * k - 1 - i, b)
    <3>1. PICK c \in Digit, d \in Digit, e \in Digit : i = 4 * c + 2 * d + e
      BY ThreeDigits
    <3>2. PICK a \in Digit, h \in Digit : 4 - k = 2 * a + h
      <4>1. k = 1 \/ k = 2 \/ k = 3 \/ k = 4
        OBVIOUS
      <4> QED BY <4>1 DEF Digit
    <3>3. Digits(p, q, a, h, c, d, e)
      BY DEF Digits
    <3>4. BitAt(z, p, q, a, h, c, d, e)
             = BitAt(ws, 1 - a, 1 - h, c, d, e, 1 - q, 1 - p)
      BY <1>5, <3>3
    <3>5. BitAt(z, p, q, a, h, c, d, e) = z[w][8 * (4 - k) + i]
      <4>1. 16 * a + 8 * h + 4 * c + 2 * d + e = 8 * (4 - k) + i
        BY <3>1, <3>2 DEF Digit
      <4> QED BY <2>2, <4>1 DEF BitAt
    <3>6. PICK u \in 0 .. 3, j \in 0 .. 31 :
             /\ u = 2 * (1 - a) + (1 - h)
             /\ j = 16 * c + 8 * d + 4 * e + 2 * (1 - q) + (1 - p)
      BY DEF Digit
    <3>7. BitAt(ws, 1 - a, 1 - h, c, d, e, 1 - q, 1 - p) = ws[u][j]
      BY <3>6 DEF BitAt
    <3>8. j \div 4 = i /\ j % 4 = b
      BY <2>1, <3>1, <3>6 DEF Digit
    <3>9. 8 * u + 7 - i = 8 * k - 1 - i
      BY <3>2, <3>6 DEF Digit
    <3>10. ws[u][j] = PixelBit(layer, bytes, 8 * u + 7 - j \div 4, j % 4)
      BY <1>4
    <3> QED BY <3>4, <3>5, <3>7, <3>8, <3>9, <3>10
  <2> QED BY <2>1, <2>2, <2>3, <2>4
<1> HIDE DEF word
<1>7. \A b \in LogicalBits, k \in 1 .. 4 :
         Mask32(layer, bytes, m68k)[b][k] = ByteOf(z[StoreOrder[b + 1]], k)
  BY <1>1
<1> QED BY <1>6, <1>7 DEF Makes

(* A byte of two pixels, the left one in its high half.                    *)
IsPair(pair, layer, bytes, k) ==
    /\ IsByte(pair)
    /\ \A b \in LogicalBits : /\ pair[b + 4] = PixelBit(layer, bytes, 2 * k - 2, b)
                              /\ pair[b] = PixelBit(layer, bytes, 2 * k - 1, b)

(* Bytes shifted, masked and combined.                                     *)
LEMMA BytesMoved ==
  ASSUME NEW w, IsByte(w), NEW v, IsByte(v)
  PROVE  LET pair == Or(Left(Stripes(w, 4), 4), Stripes(v, 4))
         IN  /\ IsByte(pair)
             /\ \A b \in 0 .. 3 : pair[b + 4] = w[b] /\ pair[b] = v[b]
<1> DEFINE s == Stripes(w, 4)
           l == Left(s, 4)
           t == Stripes(v, 4)
           pair == Or(l, t)
<1>1. IsByte(s) /\ \A i \in 0 .. 7 : s[i] = IF Even(i, 4) THEN w[i] ELSE Zero
  BY MovedByte
<1>2. IsByte(t) /\ \A i \in 0 .. 7 : t[i] = IF Even(i, 4) THEN v[i] ELSE Zero
  BY MovedByte
<1> HIDE DEF s, t
<1>3. IsByte(l) /\ \A i \in 0 .. 7 : l[i] = IF i - 4 \in 0 .. 7 THEN s[i - 4] ELSE Zero
  <2>1. IsByte(s)
    BY <1>1
  <2>2. \A i \in 0 .. 7 : Left(s, 4)[i] = IF i - 4 \in 0 .. 7 THEN s[i - 4] ELSE Zero
    BY <2>1 DEF Left, At, Positions, IsByte
  <2>3. IsByte(Left(s, 4))
    BY <2>1 DEF Left, Positions, IsByte
  <2> QED BY <2>2, <2>3
<1> HIDE DEF l
<1>4. IsByte(pair) /\ \A i \in 0 .. 7 : pair[i] = Either(l[i], t[i])
  <2>1. IsByte(l)
    BY <1>3
  <2>2. IsByte(Or(l, t)) /\ \A i \in 0 .. 7 : Or(l, t)[i] = Either(l[i], t[i])
    BY <2>1, MovedByte
  <2> QED BY <2>2
<1> HIDE DEF pair
<1>5. ASSUME NEW b \in 0 .. 3
      PROVE  pair[b + 4] = w[b] /\ pair[b] = v[b]
  <2>1. /\ b \in 0 .. 7 /\ b + 4 \in 0 .. 7 /\ (b + 4) - 4 = b
        /\ b - 4 \notin 0 .. 7 /\ Even(b, 4) /\ ~Even(b + 4, 4)
    BY DEF Even
  <2>2. l[b + 4] = w[b] /\ l[b] = Zero
    BY <1>1, <1>3, <2>1
  <2>3. t[b + 4] = Zero /\ t[b] = v[b]
    BY <1>2, <2>1
  <2> QED BY <1>4, <2>1, <2>2, <2>3, FlipsAndEithers
<1> QED BY <1>4, <1>5 DEF pair, l, t, s

(* A pair of pixels of either format, as the index of the table.           *)
LEMMA Paired ==
  ASSUME NEW layer, layer.format \in {"packed4", "byte4"}, NEW bytes,
         IsBytes(bytes, BytesOf(layer.format, 8)), NEW k \in 1 .. 4
  PROVE  IsPair(Pairs(layer, bytes)[k], layer, bytes, k)
<1>0. \A j \in 1 .. BytesOf(layer.format, 8) : IsByte(bytes[j])
  BY DEF IsBytes
<1>1. CASE layer.format = "packed4"
  <2>1. Pairs(layer, bytes)[k] = bytes[k]
    BY <1>1 DEF Pairs
  <2>2. IsByte(bytes[k])
    BY <1>0, <1>1 DEF BytesOf
  <2>3. \A b \in LogicalBits : /\ bytes[k][b + 4] = PixelBit(layer, bytes, 2 * k - 2, b)
                               /\ bytes[k][b] = PixelBit(layer, bytes, 2 * k - 1, b)
    <3>1. /\ (2 * k - 2) \div 2 + 1 = k /\ (2 * k - 2) % 2 = 0
          /\ (2 * k - 1) \div 2 + 1 = k /\ (2 * k - 1) % 2 = 1
      OBVIOUS
    <3>2. \A b \in LogicalBits : b + 4 * (1 - 0) = b + 4 /\ b + 4 * (1 - 1) = b
      BY DEF LogicalBits
    <3> QED BY <1>1, <3>1, <3>2 DEF PixelBit
  <2> QED BY <2>1, <2>2, <2>3 DEF IsPair
<1>2. CASE layer.format = "byte4"
  <2>1. PICK w, v : w = bytes[2 * k - 1] /\ v = bytes[2 * k]
    OBVIOUS
  <2>2. IsByte(w) /\ IsByte(v)
    BY <1>0, <1>2, <2>1 DEF BytesOf
  <2>3. PICK pair : pair = Or(Left(Stripes(w, 4), 4), Stripes(v, 4))
    OBVIOUS
  <2>8. LET both == Or(Left(Stripes(w, 4), 4), Stripes(v, 4))
        IN  IsByte(both) /\ \A b \in 0 .. 3 : both[b + 4] = w[b] /\ both[b] = v[b]
    BY <2>2, BytesMoved
  <2>4. IsByte(pair) /\ \A b \in 0 .. 3 : pair[b + 4] = w[b] /\ pair[b] = v[b]
    BY <2>3, <2>8
  <2>5. Pairs(layer, bytes)[k] = pair
    BY <1>2, <2>1, <2>3 DEF Pairs
  <2>6. (2 * k - 2) + 1 = 2 * k - 1 /\ (2 * k - 1) + 1 = 2 * k
    OBVIOUS
  <2>7. \A b \in LogicalBits : /\ PixelBit(layer, bytes, 2 * k - 2, b) = w[b]
                               /\ PixelBit(layer, bytes, 2 * k - 1, b) = v[b]
    BY <1>2, <2>1, <2>6 DEF PixelBit
  <2> QED BY <2>4, <2>5, <2>7 DEF IsPair, LogicalBits
<1> QED BY <1>1, <1>2

(* The entry of the table: a bit of each of the two pixels to a byte.      *)
EntryOf(pair, entry) ==
    /\ IsLong(entry)
    /\ \A u \in 0 .. 3 : \A t \in 0 .. 7 :
          entry[8 * u + t] = IF t = 7 THEN pair[(3 - u) + 4]
                             ELSE IF t = 6 THEN pair[3 - u]
                             ELSE Zero

(* spread_nibble.                                                          *)
LEMMA Spreads ==
  ASSUME NEW nibble
  PROVE  /\ IsLong(Spread(nibble))
         /\ \A u \in 0 .. 3 : \A t \in 0 .. 7 :
               Spread(nibble)[8 * u + t] = IF t = 7 THEN nibble[3 - u] ELSE Zero
<1>1. IsLong(Spread(nibble))
  BY DEF IsLong, Spread
<1>2. \A u \in 0 .. 3 : \A t \in 0 .. 7 :
         /\ 8 * u + t \in 0 .. 31 /\ (8 * u + t) % 8 = t
         /\ t = 7 => (31 - (8 * u + t)) \div 8 = 3 - u
  OBVIOUS
<1> QED BY <1>1, <1>2 DEF Spread

(* build_pair_lut: the entry of a pair.                                    *)
LEMMA Entry ==
  ASSUME NEW pair, IsByte(pair)
  PROVE  EntryOf(pair, PairEntry(pair))
<1> DEFINE high == Right(pair, 4)
           low == Stripes(pair, 4)
           one == Spread(high)
           two == Spread(low)
           right == Right(two, 1)
           entry == Or(one, right)
<1>1. \A i \in 0 .. 3 : high[i] = pair[i + 4] /\ low[i] = pair[i]
  <2>1. \A i \in 0 .. 3 : i \in 0 .. 7 /\ i + 4 \in 0 .. 7 /\ Even(i, 4)
    BY DEF Even
  <2>2. /\ \A i \in 0 .. 7 : high[i] = IF i + 4 \in 0 .. 7 THEN pair[i + 4] ELSE Zero
        /\ \A i \in 0 .. 7 : low[i] = IF Even(i, 4) THEN pair[i] ELSE Zero
    <3>1. \A n \in Nat : \A i \in 0 .. 7 :
             /\ Right(pair, n)[i] = IF i + n \in 0 .. 7 THEN pair[i + n] ELSE Zero
             /\ Stripes(pair, n)[i] = IF Even(i, n) THEN pair[i] ELSE Zero
      BY MovedByte
    <3> QED BY <3>1
  <2> HIDE DEF high, low
  <2> QED BY <2>1, <2>2
<1>2. PairEntry(pair) = entry
  BY DEF PairEntry
<1> HIDE DEF high, low
<1>3. /\ IsLong(one)
      /\ \A u \in 0 .. 3 : \A t \in 0 .. 7 :
            one[8 * u + t] = IF t = 7 THEN high[3 - u] ELSE Zero
  BY Spreads
<1>4. /\ IsLong(two)
      /\ \A u \in 0 .. 3 : \A t \in 0 .. 7 :
            two[8 * u + t] = IF t = 7 THEN low[3 - u] ELSE Zero
  BY Spreads
<1> HIDE DEF one, two
<1>5. IsRight(right, two, 1)
  BY <1>4, LongsMoved
<1> HIDE DEF right
<1>6. IsEither(entry, one, right)
  BY <1>3, LongsMoved
<1> HIDE DEF entry
<1>7. ASSUME NEW u \in 0 .. 3, NEW t \in 0 .. 7
      PROVE  entry[8 * u + t] = IF t = 7 THEN pair[(3 - u) + 4]
                                ELSE IF t = 6 THEN pair[3 - u]
                                ELSE Zero
  <2>1. 8 * u + t \in 0 .. 31 /\ 3 - u \in 0 .. 3
    OBVIOUS
  <2>2. right[8 * u + t] = IF t = 6 THEN low[3 - u] ELSE Zero
    <3>1. right[8 * u + t] = IF 8 * u + t + 1 \in 0 .. 31 THEN two[8 * u + t + 1] ELSE Zero
      BY <1>5, <2>1 DEF IsRight
    <3>2. CASE t = 7
      <4>1. CASE u = 3
        BY <3>1, <3>2, <4>1
      <4>2. CASE u # 3
        <5>1. PICK v \in 0 .. 3 : v = u + 1
          BY <4>2
        <5>2. two[8 * v + 0] = Zero
          BY <1>4
        <5>3. 8 * u + t + 1 = 8 * v + 0 /\ 8 * u + t + 1 \in 0 .. 31
          BY <3>2, <5>1
        <5> QED BY <3>1, <3>2, <5>2, <5>3
      <4> QED BY <4>1, <4>2
    <3>3. CASE t # 7
      <4>1. PICK s \in 0 .. 7 : s = t + 1
        BY <3>3
      <4>2. 8 * u + t + 1 = 8 * u + s /\ 8 * u + s \in 0 .. 31
        BY <4>1
      <4>3. two[8 * u + s] = IF s = 7 THEN low[3 - u] ELSE Zero
        BY <1>4
      <4> QED BY <3>1, <4>1, <4>2, <4>3
    <3> QED BY <3>2, <3>3
  <2>3. entry[8 * u + t] = Either(one[8 * u + t], right[8 * u + t])
    BY <1>6, <2>1 DEF IsEither
  <2>4. one[8 * u + t] = IF t = 7 THEN high[3 - u] ELSE Zero
    BY <1>3
  <2> QED BY <1>1, <2>1, <2>2, <2>3, <2>4, FlipsAndEithers
<1> QED BY <1>2, <1>6, <1>7 DEF EntryOf, IsEither

(* The entry of the pair k, moved to its place.                            *)
PartOf(pair, k, part) ==
    /\ IsLong(part)
    /\ \A u \in 0 .. 3 : \A t \in 0 .. 7 :
          part[8 * u + t] = IF t = 9 - 2 * k THEN pair[(3 - u) + 4]
                            ELSE IF t = 8 - 2 * k THEN pair[3 - u]
                            ELSE Zero

LEMMA Part ==
  ASSUME NEW pair, NEW entry, EntryOf(pair, entry), NEW k \in 1 .. 4
  PROVE  PartOf(pair, k, Right(entry, 2 * (k - 1)))
<1> DEFINE n == 2 * (k - 1)
           part == Right(entry, n)
<1>1. n \in Nat /\ n <= 6
  OBVIOUS
<1>2. IsLong(entry)
  BY DEF EntryOf
<1>3. IsRight(part, entry, n)
  <2> HIDE DEF n
  <2> QED BY <1>1, <1>2, LongsMoved
<1> HIDE DEF part
<1>4. ASSUME NEW u \in 0 .. 3, NEW t \in 0 .. 7
      PROVE  part[8 * u + t] = IF t = 9 - 2 * k THEN pair[(3 - u) + 4]
                               ELSE IF t = 8 - 2 * k THEN pair[3 - u]
                               ELSE Zero
  <2> HIDE DEF n
  <2>1. /\ 8 * u + t \in 0 .. 31
        /\ part[8 * u + t] = IF 8 * u + t + n \in 0 .. 31 THEN entry[8 * u + t + n] ELSE Zero
    BY <1>3 DEF IsRight
  <2>2. (t = 9 - 2 * k <=> t + n = 7) /\ (t = 8 - 2 * k <=> t + n = 6)
    BY DEF n
  <2>3. CASE t + n <= 7
    <3>1. PICK s \in 0 .. 7 : s = t + n
      BY <1>1, <2>3
    <3>2. 8 * u + t + n = 8 * u + s /\ 8 * u + s \in 0 .. 31
      BY <1>1, <3>1
    <3>3. entry[8 * u + s] = IF s = 7 THEN pair[(3 - u) + 4]
                             ELSE IF s = 6 THEN pair[3 - u]
                             ELSE Zero
      BY DEF EntryOf
    <3> QED BY <2>1, <2>2, <3>1, <3>2, <3>3
  <2>4. CASE t + n > 7
    <3>1. part[8 * u + t] = Zero
      <4>1. CASE u = 3
        <5>1. 8 * u + t + n \notin 0 .. 31
          BY <1>1, <2>4, <4>1
        <5> QED BY <2>1, <5>1
      <4>2. CASE u # 3
        <5>1. PICK v \in 0 .. 3, s \in 0 .. 7 : v = u + 1 /\ s = t + n - 8 /\ s < 6
          BY <1>1, <2>4, <4>2
        <5>2. 8 * u + t + n = 8 * v + s /\ 8 * v + s \in 0 .. 31
          BY <1>1, <5>1
        <5>3. entry[8 * v + s] = Zero
          BY <5>1 DEF EntryOf
        <5> QED BY <2>1, <5>2, <5>3
      <4> QED BY <4>1, <4>2
    <3> QED BY <1>1, <2>2, <2>4, <3>1
  <2> QED BY <1>1, <2>3, <2>4
<1> QED BY <1>3, <1>4 DEF PartOf, IsRight, part

(* The table of pairs makes the byte of each of the four planes.           *)
LEMMA LookupMakes ==
  ASSUME NEW layer, layer.format \in {"packed4", "byte4"}, NEW bytes,
         IsBytes(bytes, BytesOf(layer.format, 8))
  PROVE  Makes(layer, bytes, 1, Lookup(layer, bytes))
<1> DEFINE pairs == Pairs(layer, bytes)
           part(k) == Right(PairEntry(pairs[k]), 2 * (k - 1))
<1>1. PICK a, b, c, d : a = part(1) /\ b = part(2) /\ c = part(3) /\ d = part(4)
  OBVIOUS
<1>2. PICK transpose : transpose = Or(Or(Or(a, b), c), d)
  OBVIOUS
<1>3. Lookup(layer, bytes) = [f \in LogicalBits |-> <<ByteOf(transpose, f + 1)>>]
  BY <1>1, <1>2 DEF Lookup
<1>4. ASSUME NEW k \in 1 .. 4
      PROVE  IsPair(pairs[k], layer, bytes, k) /\ PartOf(pairs[k], k, part(k))
  <2>1. IsPair(pairs[k], layer, bytes, k)
    BY Paired
  <2>2. EntryOf(pairs[k], PairEntry(pairs[k]))
    <3> HIDE DEF pairs
    <3> QED BY <2>1, Entry DEF IsPair
  <2>3. PartOf(pairs[k], k, part(k))
    <3> HIDE DEF pairs
    <3> QED BY <2>2, Part
  <2> QED BY <2>1, <2>3
<1> HIDE DEF pairs, part
<1>5. /\ PartOf(pairs[1], 1, a) /\ PartOf(pairs[2], 2, b)
      /\ PartOf(pairs[3], 3, c) /\ PartOf(pairs[4], 4, d)
  BY <1>1, <1>4
<1>6. PICK e, g : e = Or(a, b) /\ g = Or(e, c)
  OBVIOUS
<1>7. /\ IsEither(e, a, b) /\ IsEither(g, e, c) /\ IsEither(transpose, g, d)
  <2>1. IsLong(a)
    BY <1>5 DEF PartOf
  <2>2. IsEither(e, a, b)
    BY <1>6, <2>1, LongsMoved
  <2>3. IsEither(g, e, c)
    BY <1>6, <2>2, LongsMoved DEF IsEither
  <2>4. IsEither(transpose, g, d)
    BY <1>2, <1>6, <2>3, LongsMoved DEF IsEither
  <2> QED BY <2>2, <2>3, <2>4
<1>8. ASSUME NEW u \in 0 .. 3, NEW k \in 1 .. 4
      PROVE  /\ transpose[8 * u + (9 - 2 * k)] = pairs[k][(3 - u) + 4]
             /\ transpose[8 * u + (8 - 2 * k)] = pairs[k][3 - u]
  <2>1. ASSUME NEW t \in 0 .. 7
        PROVE  transpose[8 * u + t] =
                 Either(Either(Either(a[8 * u + t], b[8 * u + t]),
                               c[8 * u + t]), d[8 * u + t])
    <3>1. 8 * u + t \in 0 .. 31
      OBVIOUS
    <3> QED BY <1>7, <3>1 DEF IsEither
  <2>2. ASSUME NEW t \in 0 .. 7
        PROVE  /\ a[8 * u + t] = IF t = 7 THEN pairs[1][(3 - u) + 4]
                                 ELSE IF t = 6 THEN pairs[1][3 - u] ELSE Zero
               /\ b[8 * u + t] = IF t = 5 THEN pairs[2][(3 - u) + 4]
                                 ELSE IF t = 4 THEN pairs[2][3 - u] ELSE Zero
               /\ c[8 * u + t] = IF t = 3 THEN pairs[3][(3 - u) + 4]
                                 ELSE IF t = 2 THEN pairs[3][3 - u] ELSE Zero
               /\ d[8 * u + t] = IF t = 1 THEN pairs[4][(3 - u) + 4]
                                 ELSE IF t = 0 THEN pairs[4][3 - u] ELSE Zero
    <3>1. /\ 9 - 2 * 1 = 7 /\ 8 - 2 * 1 = 6 /\ 9 - 2 * 2 = 5 /\ 8 - 2 * 2 = 4
          /\ 9 - 2 * 3 = 3 /\ 8 - 2 * 3 = 2 /\ 9 - 2 * 4 = 1 /\ 8 - 2 * 4 = 0
      OBVIOUS
    <3>2. a[8 * u + t] = IF t = 9 - 2 * 1 THEN pairs[1][(3 - u) + 4]
                         ELSE IF t = 8 - 2 * 1 THEN pairs[1][3 - u] ELSE Zero
      BY <1>5 DEF PartOf
    <3>3. b[8 * u + t] = IF t = 9 - 2 * 2 THEN pairs[2][(3 - u) + 4]
                         ELSE IF t = 8 - 2 * 2 THEN pairs[2][3 - u] ELSE Zero
      BY <1>5 DEF PartOf
    <3>4. c[8 * u + t] = IF t = 9 - 2 * 3 THEN pairs[3][(3 - u) + 4]
                         ELSE IF t = 8 - 2 * 3 THEN pairs[3][3 - u] ELSE Zero
      BY <1>5 DEF PartOf
    <3>5. d[8 * u + t] = IF t = 9 - 2 * 4 THEN pairs[4][(3 - u) + 4]
                         ELSE IF t = 8 - 2 * 4 THEN pairs[4][3 - u] ELSE Zero
      BY <1>5 DEF PartOf
    <3> QED BY <3>1, <3>2, <3>3, <3>4, <3>5
  <2>3. /\ 9 - 2 * k \in 0 .. 7 /\ 8 - 2 * k \in 0 .. 7
    OBVIOUS
  <2>4. CASE k = 1
    BY <2>1, <2>2, <2>4, FlipsAndEithers
  <2>5. CASE k = 2
    BY <2>1, <2>2, <2>5, FlipsAndEithers
  <2>6. CASE k = 3
    BY <2>1, <2>2, <2>6, FlipsAndEithers
  <2>7. CASE k = 4
    BY <2>1, <2>2, <2>7, FlipsAndEithers
  <2> QED BY <2>4, <2>5, <2>6, <2>7
<1>9. ASSUME NEW f \in LogicalBits
      PROVE  /\ IsByte(ByteOf(transpose, f + 1))
             /\ \A i \in 0 .. 7 :
                   ByteOf(transpose, f + 1)[i] = PixelBit(layer, bytes, 7 - i, f)
  <2>1. f + 1 \in 1 .. 4
    BY DEF LogicalBits
  <2>2. /\ IsByte(ByteOf(transpose, f + 1))
        /\ \A i \in 0 .. 7 :
              ByteOf(transpose, f + 1)[i] = transpose[8 * (4 - (f + 1)) + i]
    BY <1>7, <2>1, BytesOfWords DEF IsEither
  <2>3. ASSUME NEW i \in 0 .. 7
        PROVE  transpose[8 * (4 - (f + 1)) + i] = PixelBit(layer, bytes, 7 - i, f)
    <3>1. PICK u \in 0 .. 3 : u = 4 - (f + 1) /\ 3 - u = f
      BY DEF LogicalBits
    <3>2. CASE i % 2 = 1
      <4>1. PICK k \in 1 .. 4 : i = 9 - 2 * k /\ 7 - i = 2 * k - 2
        <5>1. (9 - i) \div 2 \in 1 .. 4 /\ i = 9 - 2 * ((9 - i) \div 2)
          BY <3>2
        <5> QED BY <5>1
      <4>2. pairs[k][f + 4] = PixelBit(layer, bytes, 2 * k - 2, f)
        BY <1>4 DEF IsPair
      <4> QED BY <1>8, <3>1, <4>1, <4>2
    <3>3. CASE i % 2 = 0
      <4>1. PICK k \in 1 .. 4 : i = 8 - 2 * k /\ 7 - i = 2 * k - 1
        <5>1. (8 - i) \div 2 \in 1 .. 4 /\ i = 8 - 2 * ((8 - i) \div 2)
          BY <3>3
        <5> QED BY <5>1
      <4>2. pairs[k][f] = PixelBit(layer, bytes, 2 * k - 1, f)
        BY <1>4 DEF IsPair
      <4> QED BY <1>8, <3>1, <4>1, <4>2
    <3>4. i % 2 = 0 \/ i % 2 = 1
      OBVIOUS
    <3> QED BY <3>2, <3>3, <3>4
  <2> QED BY <2>2, <2>3
<1>10. ASSUME NEW f \in LogicalBits, NEW k \in 1 .. 1
       PROVE  /\ IsByte(Lookup(layer, bytes)[f][k])
              /\ \A i \in 0 .. 7 : Lookup(layer, bytes)[f][k][i]
                                      = PixelBit(layer, bytes, 8 * k - 1 - i, f)
  <2>1. k = 1 /\ \A i \in 0 .. 7 : 8 * k - 1 - i = 7 - i
    OBVIOUS
  <2>2. Lookup(layer, bytes)[f][k] = ByteOf(transpose, f + 1)
    BY <1>3, <2>1
  <2> QED BY <1>9, <2>1, <2>2
<1> QED BY <1>10 DEF Makes

(***************************************************************************)
(* What a group of pixels is, in a layer of the image.                     *)
(***************************************************************************)

(* A byte of the image is a function of 0..7.                              *)
LEMMA SourceBytes ==
  ASSUME NEW layer, NEW width, NEW address, NEW n \in Nat
  PROVE  /\ IsBytes(Bytes(layer, width, address, n), n)
         /\ \A k \in 1 .. n :
               Bytes(layer, width, address, n)[k]
                   = SourceByte(layer, width, address + k - 1)
<1>1. \A offset : IsByte(SourceByte(layer, width, offset))
  BY DEF SourceByte, IsByte
<1> QED BY <1>1 DEF Bytes, IsBytes

(* The byte "at" of row y.                                                 *)
LEMMA ByteOfRow ==
  ASSUME NEW layer \in Layers, NEW width \in Nat, NEW y \in Nat, NEW at \in Nat,
         at < BytesOf(layer.format, width), BytesOf(layer.format, width) <= layer.stride,
         BytesOf(layer.format, width) \in Nat
  PROVE  LET half(name, x, i) == Pixel(name, x, y)[i % 4]
         IN  SourceByte(layer, width, y * layer.stride + at) =
               [i \in 0 .. 7 |->
                  IF layer.format = "packed4"
                  THEN half(layer.playfield, 2 * at + (IF i < 4 THEN 1 ELSE 0), i)
                  ELSE IF layer.format = "fb8"
                  THEN half(IF i < 4 THEN "back" ELSE "front", at, i)
                  ELSE IF i < 4 THEN half(layer.playfield, at, i)
                  ELSE Other("ignored")]
<1>1. layer.stride \in Nat /\ at < layer.stride
  BY DEF Layers
<1>2. PICK offset : offset = y * layer.stride + at
  OBVIOUS
<1>3. offset \div layer.stride = y /\ offset % layer.stride = at
  BY <1>1, <1>2, Quotient
<1>4. ~(at >= BytesOf(layer.format, width))
  OBVIOUS
<1> QED BY <1>2, <1>3, <1>4 DEF SourceByte

(* The bytes of a group, and what the image shows there.                   *)
GroupAt(layer, width, g, c, y) ==
    Bytes(layer, width, y * layer.stride + c * BytesOf(layer.format, g),
          BytesOf(layer.format, g))

GroupIn(layer, width, g, c) ==
    /\ layer \in Layers /\ width \in Nat /\ g \in {8, 32} /\ width % g = 0
    /\ BytesOf(layer.format, width) <= layer.stride
    /\ c \in Nat /\ (c + 1) * g <= width
GroupShown(layer, width, g, c, y) ==
    \A p \in 0 .. g - 1, b \in LogicalBits :
        PixelBit(layer, GroupAt(layer, width, g, c, y), p, b)
            = Pixel(layer.playfield, c * g + p, y)[b]

(* A group of an accepted row holds its pixels.                            *)
LEMMA GroupIsShown ==
  ASSUME NEW layer, NEW width, NEW g, NEW c, GroupIn(layer, width, g, c), NEW y \in Nat
  PROVE  GroupShown(layer, width, g, c, y)
<1> SUFFICES ASSUME NEW p \in 0 .. g - 1, NEW b \in LogicalBits
             PROVE  PixelBit(layer, GroupAt(layer, width, g, c, y), p, b)
                        = Pixel(layer.playfield, c * g + p, y)[b]
  BY DEF GroupShown
<1> /\ layer \in Layers /\ width \in Nat /\ g \in {8, 32} /\ width % g = 0
    /\ BytesOf(layer.format, width) <= layer.stride
    /\ c \in Nat /\ (c + 1) * g <= width
  BY DEF GroupIn
<1> DEFINE n == BytesOf(layer.format, g)
           address == y * layer.stride + c * n
           bytes == Bytes(layer, width, address, n)
<1>0. bytes = GroupAt(layer, width, g, c, y)
  BY DEF GroupAt
<1>1. n \in Nat /\ layer.stride \in Nat /\ b \in 0 .. 3
  BY DEF BytesOf, Layers, LogicalBits
<1> HIDE DEF n
<1>2. PICK above : above = y * layer.stride
  OBVIOUS
<1>3. above \in Nat
  BY <1>1, <1>2
<1>4. PICK start : start = c * n
  OBVIOUS
<1>5. start \in Nat
  BY <1>1, <1>4
<1>6. ASSUME NEW k \in 1 .. n
      PROVE  bytes[k] = SourceByte(layer, width, y * layer.stride + (start + k - 1))
  <2>1. address + k - 1 = y * layer.stride + (start + k - 1)
    BY <1>1, <1>2, <1>3, <1>4, <1>5
  <2> HIDE DEF address
  <2> QED BY <1>1, <2>1, SourceBytes
<1> HIDE DEF bytes, address
<1>7. CASE layer.format = "packed4"
  <2>1. PICK at \in Nat : at = start + p \div 2
    BY <1>5
  <2>2. /\ n = g \div 2 /\ BytesOf(layer.format, width) = width \div 2
        /\ p \div 2 + 1 \in 1 .. n /\ width \div 2 \in Nat
    BY <1>7 DEF n, BytesOf
  <2>3. at < width \div 2 /\ 2 * at + (p % 2) = c * g + p
    <3>1. CASE g = 8
      <4>1. start = 4 * c /\ (c + 1) * 8 <= width
        BY <1>4, <2>2, <3>1
      <4> QED BY <2>1, <3>1, <4>1
    <3>2. CASE g = 32
      <4>1. start = 16 * c /\ (c + 1) * 32 <= width
        BY <1>4, <2>2, <3>2
      <4> QED BY <2>1, <3>2, <4>1
    <3> QED BY <3>1, <3>2
  <2>4. bytes[p \div 2 + 1] = SourceByte(layer, width, y * layer.stride + at)
    <3>1. start + (p \div 2 + 1) - 1 = at
      BY <1>5, <2>1
    <3> QED BY <1>6, <2>2, <3>1
  <2>5. PICK i \in 0 .. 7 : i = b + 4 * (1 - (p % 2))
    BY <1>1
  <2>6. i % 4 = b /\ (IF i < 4 THEN 1 ELSE 0) = p % 2
    BY <1>1, <2>5
  <2>7. SourceByte(layer, width, y * layer.stride + at)[i]
           = Pixel(layer.playfield, 2 * at + (IF i < 4 THEN 1 ELSE 0), y)[i % 4]
    <3>1. at < BytesOf(layer.format, width) /\ BytesOf(layer.format, width) \in Nat
      BY <2>2, <2>3
    <3>2. SourceByte(layer, width, y * layer.stride + at) =
            [j \in 0 .. 7 |->
               IF layer.format = "packed4"
               THEN Pixel(layer.playfield, 2 * at + (IF j < 4 THEN 1 ELSE 0), y)[j % 4]
               ELSE IF layer.format = "fb8"
               THEN Pixel(IF j < 4 THEN "back" ELSE "front", at, y)[j % 4]
               ELSE IF j < 4 THEN Pixel(layer.playfield, at, y)[j % 4]
               ELSE Other("ignored")]
      BY <3>1, ByteOfRow
    <3> QED BY <1>7, <3>2
  <2>8. PixelBit(layer, bytes, p, b) = bytes[p \div 2 + 1][i]
    BY <1>7, <2>5 DEF PixelBit
  <2> QED BY <1>0, <2>3, <2>4, <2>6, <2>7, <2>8
<1>8. CASE layer.format # "packed4"
  <2>1. PICK at \in Nat : at = start + p
    BY <1>5
  <2>2. /\ n = g /\ BytesOf(layer.format, width) = width
        /\ p + 1 \in 1 .. n
    BY <1>8 DEF n, BytesOf
  <2>3. at < width /\ at = c * g + p
    <3>1. CASE g = 8
      BY <1>4, <2>1, <2>2, <3>1
    <3>2. CASE g = 32
      BY <1>4, <2>1, <2>2, <3>2
    <3> QED BY <3>1, <3>2
  <2>4. bytes[p + 1] = SourceByte(layer, width, y * layer.stride + at)
    <3>1. start + (p + 1) - 1 = at
      BY <1>5, <2>1
    <3> QED BY <1>6, <2>2, <3>1
  <2>5. b \in 0 .. 7 /\ b + 4 \in 0 .. 7 /\ b % 4 = b /\ (b + 4) % 4 = b /\ b < 4 /\ ~(b + 4 < 4)
    BY <1>1
  <2>6. SourceByte(layer, width, y * layer.stride + at) =
          [i \in 0 .. 7 |->
                  IF layer.format = "fb8"
                  THEN Pixel(IF i < 4 THEN "back" ELSE "front", at, y)[i % 4]
                  ELSE IF i < 4 THEN Pixel(layer.playfield, at, y)[i % 4]
                  ELSE Other("ignored")]
    BY <1>8, <2>2, <2>3, ByteOfRow
  <2>7. PixelBit(layer, bytes, p, b) = Pixel(layer.playfield, at, y)[b]
    <3>1. layer.playfield \in {"front", "back"}
      BY DEF Layers
    <3>2. CASE layer.format = "fb8" /\ layer.playfield = "front"
      BY <1>8, <2>4, <2>5, <2>6, <3>2 DEF PixelBit
    <3>3. CASE layer.format = "fb8" /\ layer.playfield = "back"
      BY <1>8, <2>4, <2>5, <2>6, <3>3 DEF PixelBit
    <3>4. CASE layer.format # "fb8"
      BY <1>8, <2>4, <2>5, <2>6, <3>4 DEF PixelBit
    <3> QED BY <3>1, <3>2, <3>3, <3>4
  <2> QED BY <1>0, <2>3, <2>7
<1> QED BY <1>7, <1>8

-----------------------------------------------------------------------------
(***************************************************************************)
(* An accepted call.                                                       *)
(***************************************************************************)
Accepted(c) == c \in ConversionCalls /\ Validate(c) = "ok"

(* What validation has made sure of.                                       *)
LEMMA AcceptedParts ==
  ASSUME NEW c, Accepted(c)
  PROVE  /\ c.width \in Nat /\ c.height \in Nat /\ c.plane_stride \in Nat /\ c.base \in Nat
         /\ GroupPixels(c) \in {8, 32} /\ c.width % GroupPixels(c) = 0
         /\ c.width # 0 /\ c.height # 0
         /\ c.width \div 8 \in Nat /\ c.width \div 8 <= c.plane_stride /\ c.plane_stride # 0
         /\ \A l \in DOMAIN c.layers :
               /\ l \in 1 .. Len(c.layers) /\ c.layers[l] \in Layers
               /\ BytesOf(c.layers[l].format, c.width) <= c.layers[l].stride
         /\ 1 \in DOMAIN c.layers
<1>1. /\ c.width \in Nat /\ c.height \in Nat /\ c.plane_stride \in Nat /\ c.base \in Nat
      /\ c.backend \in Backends /\ c.layers \in Seq(Layers) /\ c.layers # <<>>
  BY DEF Accepted, ConversionCalls
<1>2. GroupPixels(c) \in {8, 32}
  BY DEF GroupPixels
<1>3. /\ c.width # 0 /\ c.height # 0 /\ c.width % GroupPixels(c) = 0
      /\ \A l \in DOMAIN c.layers :
            ~(c.layers[l].stride < BytesOf(c.layers[l].format, c.width))
      /\ ~(c.plane_stride < c.width \div 8)
  BY DEF Accepted, Validate
<1>4. DOMAIN c.layers = 1 .. Len(c.layers) /\ Len(c.layers) \in Nat /\ 1 \in DOMAIN c.layers
  BY <1>1, LenProperties, EmptySeq
<1>5. \A l \in DOMAIN c.layers : c.layers[l] \in Layers
  BY <1>1, <1>4, ElementOfSeq
<1>6. \A l \in DOMAIN c.layers :
         BytesOf(c.layers[l].format, c.width) <= c.layers[l].stride
  <2>1. \A l \in DOMAIN c.layers :
           BytesOf(c.layers[l].format, c.width) \in Nat /\ c.layers[l].stride \in Nat
    BY <1>1, <1>5 DEF BytesOf, Layers
  <2> QED BY <1>3, <2>1
<1>7. c.width \div 8 \in Nat /\ c.width \div 8 <= c.plane_stride /\ c.plane_stride # 0
  <2>1. c.width >= 8
    <3>1. PICK w \in Nat : w = c.width
      BY <1>1
    <3>2. CASE GroupPixels(c) = 8
      <4>1. w % 8 = 0 /\ w # 0
        BY <1>3, <3>1, <3>2
      <4> QED BY <3>1, <4>1
    <3>3. CASE GroupPixels(c) = 32
      <4>1. w % 32 = 0 /\ w # 0
        BY <1>3, <3>1, <3>3
      <4> QED BY <3>1, <4>1
    <3> QED BY <1>2, <3>2, <3>3
  <2> QED BY <1>1, <1>3, <2>1
<1> QED BY <1>1, <1>2, <1>3, <1>4, <1>5, <1>6, <1>7

(* Every kernel makes what it is to make of a group.                       *)
LEMMA Kernels ==
  ASSUME NEW c, Accepted(c), NEW l \in DOMAIN c.layers, NEW bytes,
         IsBytes(bytes, BytesOf(c.layers[l].format, GroupPixels(c)))
  PROVE  Makes(c.layers[l], bytes, GroupPixels(c) \div 8,
               CASE c.backend = "reference" -> Reference(c.layers[l], bytes)
                 [] c.backend \in {"lookup", "pair_lut_m68k"} -> Lookup(c.layers[l], bytes)
                 [] c.backend \in {"mask32", "mask32_m68k"} ->
                       Mask32(c.layers[l], bytes, OnM68k(c)))
<1>1. c.backend \in Backends
  BY DEF Accepted, ConversionCalls
<1>2. c.backend # "reference" => c.layers[l].format \in {"packed4", "byte4"}
  <2>1. c.backend # "reference" =>
           Len(c.layers) = 1 /\ c.layers[1].format \in {"packed4", "byte4"}
    BY DEF Accepted, ConversionCalls
  <2>2. l \in 1 .. Len(c.layers)
    BY AcceptedParts
  <2> QED BY <2>1, <2>2
<1>3. PICK layer : layer = c.layers[l]
  OBVIOUS
<1>4. CASE c.backend = "reference"
  <2>1. GroupPixels(c) = 8
    BY <1>4 DEF GroupPixels
  <2>2. Makes(layer, bytes, 1, Reference(layer, bytes))
    BY <1>3, <2>1, ReferenceMakes
  <2> QED BY <1>3, <1>4, <2>1, <2>2
<1>5. CASE c.backend \in {"lookup", "pair_lut_m68k"}
  <2>1. GroupPixels(c) = 8 /\ c.backend # "reference"
    BY <1>5 DEF GroupPixels
  <2>2. Makes(layer, bytes, 1, Lookup(layer, bytes))
    BY <1>2, <1>3, <2>1, LookupMakes
  <2> QED BY <1>3, <1>5, <2>1, <2>2
<1>6. CASE c.backend \in {"mask32", "mask32_m68k"}
  <2>1. GroupPixels(c) = 32 /\ c.backend # "reference" /\ OnM68k(c) \in BOOLEAN
    BY <1>6 DEF GroupPixels, OnM68k
  <2>2. Makes(layer, bytes, 4, Mask32(layer, bytes, OnM68k(c)))
    BY <1>2, <1>3, <2>1, Mask32Makes
  <2>3. c.backend \notin {"lookup", "pair_lut_m68k"}
    BY <1>6
  <2> QED BY <1>3, <1>6, <2>1, <2>2, <2>3
<1> QED BY <1>1, <1>4, <1>5, <1>6 DEF Backends

(* What the kernel makes of a group: the bytes of the four planes.         *)
LEMMA KernelExact ==
  ASSUME NEW c, Accepted(c), NEW l \in DOMAIN c.layers,
         NEW col \in Nat, (col + 1) * GroupPixels(c) <= c.width, NEW y \in Nat,
         NEW address,
         address = y * c.layers[l].stride + col * BytesOf(c.layers[l].format, GroupPixels(c)),
         NEW b \in LogicalBits, NEW k \in 1 .. GroupPixels(c) \div 8
  PROVE  Kernel(c, c.layers[l], address)[b][k] =
            [i \in 0 .. 7 |-> Pixel(c.layers[l].playfield,
                                    col * GroupPixels(c) + (8 * k - 1 - i), y)[b]]
<1>1. PICK layer, g : layer = c.layers[l] /\ g = GroupPixels(c)
  OBVIOUS
<1>2. PICK bytes : bytes = Bytes(layer, c.width, address, BytesOf(layer.format, g))
  OBVIOUS
<1>3. bytes = GroupAt(layer, c.width, g, col, y)
  BY <1>1, <1>2 DEF GroupAt
<1>4. /\ g \in {8, 32} /\ c.width % g = 0 /\ c.width \in Nat
      /\ layer \in Layers /\ BytesOf(layer.format, c.width) <= layer.stride
  BY <1>1, AcceptedParts
<1>5. BytesOf(layer.format, g) \in Nat
  BY <1>4 DEF BytesOf
<1>6. IsBytes(bytes, BytesOf(layer.format, g))
  BY <1>2, <1>5, SourceBytes
<1>7. Makes(layer, bytes, g \div 8, Kernel(c, layer, address))
  BY <1>1, <1>2, <1>6, Kernels DEF Kernel
<1>8. PICK made : made = Kernel(c, layer, address)[b][k]
  OBVIOUS
<1>9. /\ IsByte(made)
      /\ \A i \in 0 .. 7 : made[i] = PixelBit(layer, bytes, 8 * k - 1 - i, b)
  BY <1>1, <1>7, <1>8 DEF Makes
<1>10. ASSUME NEW i \in 0 .. 7
       PROVE  made[i] = Pixel(layer.playfield, col * g + (8 * k - 1 - i), y)[b]
  <2>1. PICK p \in 0 .. g - 1 : p = 8 * k - 1 - i
    BY <1>1, <1>4
  <2>2. (col + 1) * g <= c.width
    BY <1>1
  <2>3. PixelBit(layer, GroupAt(layer, c.width, g, col, y), p, b)
           = Pixel(layer.playfield, col * g + p, y)[b]
    <3>1. GroupShown(layer, c.width, g, col, y)
      <4>1. GroupIn(layer, c.width, g, col)
        BY <1>4, <2>2 DEF GroupIn
      <4> QED BY <4>1, GroupIsShown
    <3> QED BY <3>1 DEF GroupShown
  <2> QED BY <1>3, <1>9, <2>1, <2>3
<1> QED BY <1>1, <1>8, <1>9, <1>10 DEF IsByte
-----------------------------------------------------------------------------
(***************************************************************************)
(* The bytes of a plane that a group of an accepted call fills.            *)
(***************************************************************************)
LEMMA DivMod ==
  ASSUME NEW a \in Nat, NEW k \in Nat \ {0}
  PROVE  /\ a \div k \in Nat /\ a % k \in Nat /\ a % k < k
         /\ a = (a \div k) * k + (a % k)
OBVIOUS

(* The group (y, col) begins at this byte of each plane.                   *)
GroupStart(c, y, col) == c.base + y * c.plane_stride + col * (GroupPixels(c) \div 8)

(* The byte o is one of them.                                              *)
InGroup(c, y, col, o) ==
    /\ o >= c.base
    /\ (o - c.base) \div c.plane_stride = y
    /\ col * (GroupPixels(c) \div 8) <= (o - c.base) % c.plane_stride
    /\ (o - c.base) % c.plane_stride < (col + 1) * (GroupPixels(c) \div 8)

(* The bytes a group fills are those of its pixels in the plane.           *)
LEMMA Placed ==
  ASSUME NEW c, Accepted(c), NEW y \in Nat, NEW col \in Nat,
         (col + 1) * GroupPixels(c) <= c.width, NEW o \in Nat
  PROVE  LET n == GroupPixels(c) \div 8
             from == GroupStart(c, y, col)
         IN  /\ o \in from .. from + n - 1 <=> InGroup(c, y, col, o)
             /\ o \in from .. from + n - 1 =>
                   (o - c.base) % c.plane_stride = col * n + (o - from)
<1>0. PICK from : from = GroupStart(c, y, col)
  OBVIOUS
<1>1. PICK n \in {1, 4} : /\ n = GroupPixels(c) \div 8 /\ from = GroupStart(c, y, col)
                         /\ 8 * n = GroupPixels(c)
  BY <1>0, AcceptedParts
<1>2. PICK s \in Nat \ {0}, base \in Nat : s = c.plane_stride /\ base = c.base
  BY AcceptedParts
<1>3. PICK start \in Nat, above \in Nat : start = col * n /\ above = y * s
  OBVIOUS
<1>4. from = base + above + start /\ (col + 1) * n = start + n
  BY <1>1, <1>2, <1>3 DEF GroupStart
<1>5. start + n <= s
  <2>1. c.width \div 8 <= s /\ c.width \in Nat
    BY <1>2, AcceptedParts
  <2>2. CASE n = 1
    <3>1. (col + 1) * 8 <= c.width /\ start = col
      BY <1>1, <1>3, <2>2
    <3> QED BY <2>1, <2>2, <3>1
  <2>3. CASE n = 4
    <3>1. (col + 1) * 32 <= c.width /\ start = 4 * col
      BY <1>1, <1>3, <2>3
    <3> QED BY <2>1, <2>3, <3>1
  <2> QED BY <2>2, <2>3
<1>6. ASSUME o \in from .. from + n - 1
      PROVE  /\ o >= base /\ (o - base) \div s = y
             /\ (o - base) % s = start + (o - from)
  <2>1. PICK r \in Nat : r = start + (o - from) /\ r < s
    BY <1>4, <1>5, <1>6
  <2>2. o - base = y * s + r /\ o >= base
    BY <1>3, <1>4, <2>1, <1>6
  <2>3. (y * s + r) \div s = y /\ (y * s + r) % s = r
    BY <2>1, Quotient
  <2> QED BY <2>1, <2>2, <2>3
<1>7. ASSUME o >= base, (o - base) \div s = y, start <= (o - base) % s,
             (o - base) % s < start + n
      PROVE  o \in from .. from + n - 1
  <2>1. PICK a \in Nat : a = o - base
    BY <1>7
  <2>2. a = (a \div s) * s + (a % s) /\ a % s \in Nat
    BY DivMod
  <2>3. PICK r \in Nat : r = a % s
    BY <2>2
  <2>4. a = above + r /\ start <= r /\ r < start + n
    BY <1>3, <1>7, <2>1, <2>2, <2>3
  <2> QED BY <1>4, <2>1, <2>4
<1>8. InGroup(c, y, col, o) <=> /\ o >= base /\ (o - base) \div s = y
                                /\ start <= (o - base) % s
                                /\ (o - base) % s < start + n
  BY <1>1, <1>2, <1>3, <1>4 DEF InGroup
<1>9. o \in from .. from + n - 1 <=> InGroup(c, y, col, o)
  <2>1. ASSUME o \in from .. from + n - 1 PROVE InGroup(c, y, col, o)
    <3>1. o - from >= 0 /\ o - from < n /\ from \in Nat
      BY <1>4, <2>1
    <3> QED BY <1>6, <1>8, <2>1, <3>1
  <2>2. ASSUME InGroup(c, y, col, o) PROVE o \in from .. from + n - 1
    BY <1>7, <1>8, <2>2
  <2> QED BY <2>1, <2>2
<1> QED BY <1>1, <1>2, <1>3, <1>6, <1>9

(* The call writes this plane.                                             *)
ToPlane(c, p) ==
    \E l \in DOMAIN c.layers, b \in LogicalBits : p = PlaneOf(c.layers[l].playfield, b)

(* Where the group at work is read and written.                            *)
AddressesExact(c, y, col) ==
    /\ \A l \in DOMAIN c.layers :
          SourceAddress(c, c.layers[l])
              = y * c.layers[l].stride + col * BytesOf(c.layers[l].format, GroupPixels(c))
    /\ TargetAddress(c) = GroupStart(c, y, col)

(* A plane and its playfield and bit.                                      *)
LEMMA PlanesNumbered ==
  ASSUME NEW f \in {"front", "back"}, NEW b \in LogicalBits
  PROVE  /\ PlaneOf(f, b) \div 2 = b /\ PlaneOf(f, b) \in Planes
         /\ (PlaneOf(f, b) % 2 = 0) <=> f = "front"
BY DEF PlaneOf, LogicalBits, Planes

(* One group stored: its pixels where they belong, the rest as it was.     *)
LEMMA StoredBytes ==
  ASSUME NEW c, Accepted(c), NEW y \in Nat, NEW col \in Nat,
         (col + 1) * GroupPixels(c) <= c.width, AddressesExact(c, y, col),
         NEW p \in Planes, \A o \in DOMAIN planes[p] : o \in Nat
  PROVE  /\ DOMAIN Stored(c)[p] = DOMAIN planes[p]
         /\ \A o \in DOMAIN planes[p] :
               Stored(c)[p][o] = IF ToPlane(c, p) /\ InGroup(c, y, col, o)
                                 THEN [i \in 0 .. 7 |-> Wanted(c, p, o, i)]
                                 ELSE planes[p][o]
<1>1. PICK n \in {1, 4} : n = GroupPixels(c) \div 8 /\ 8 * n = GroupPixels(c)
  BY AcceptedParts
<1>2. PICK from : from = TargetAddress(c) /\ from = GroupStart(c, y, col)
  BY DEF AddressesExact
<1>3. PICK made : made = [l \in DOMAIN c.layers |->
                            Kernel(c, c.layers[l], SourceAddress(c, c.layers[l]))]
  OBVIOUS
<1> DEFINE to(l) == {PlaneOf(c.layers[l].playfield, b) : b \in LogicalBits}
           l0 == CHOOSE k \in DOMAIN c.layers : p \in to(k)
<1>4. Stored(c)[p] =
         IF \A l \in DOMAIN c.layers : p \notin to(l) THEN planes[p]
         ELSE [o \in DOMAIN planes[p] |->
                 IF o \in from .. from + n - 1
                 THEN made[l0][p \div 2][o - from + 1]
                 ELSE planes[p][o]]
  BY <1>1, <1>2, <1>3 DEF Stored
<1>5. ToPlane(c, p) <=> \E l \in DOMAIN c.layers : p \in to(l)
  BY DEF ToPlane
<1>6. ASSUME ToPlane(c, p), NEW o \in DOMAIN planes[p], o \in from .. from + n - 1
      PROVE  made[l0][p \div 2][o - from + 1] = [i \in 0 .. 7 |-> Wanted(c, p, o, i)]
  <2>1. PICK l \in DOMAIN c.layers : p \in to(l) /\ l = l0
    BY <1>5, <1>6
  <2> HIDE DEF l0
  <2>2. PICK b \in LogicalBits : p = PlaneOf(c.layers[l].playfield, b)
    BY <2>1
  <2>3. PICK f \in {"front", "back"} : f = c.layers[l].playfield
    BY AcceptedParts DEF Layers
  <2>4. p \div 2 = b /\ ((p % 2 = 0) <=> f = "front")
    BY <2>2, <2>3, PlanesNumbered
  <2>5. from \in Nat
    <3>1. c.base \in Nat /\ c.plane_stride \in Nat
      BY AcceptedParts
    <3>2. PICK above \in Nat, start \in Nat : above = y * c.plane_stride /\ start = col * n
      BY <3>1
    <3>3. from = c.base + above + start
      BY <1>1, <1>2, <3>2 DEF GroupStart
    <3> QED BY <3>1, <3>3
  <2>6. PICK k \in 1 .. GroupPixels(c) \div 8 : k = o - from + 1
    BY <1>1, <1>6, <2>5
  <2>7. PICK address : address = SourceAddress(c, c.layers[l])
    OBVIOUS
  <2>8. address = y * c.layers[l].stride + col * BytesOf(c.layers[l].format, GroupPixels(c))
    BY <2>7 DEF AddressesExact
  <2>9. Kernel(c, c.layers[l], address)[b][k] =
           [i \in 0 .. 7 |-> Pixel(c.layers[l].playfield,
                                   col * GroupPixels(c) + (8 * k - 1 - i), y)[b]]
    BY <2>8, KernelExact, SMTT(30)
  <2>10. made[l][p \div 2][o - from + 1] =
           [i \in 0 .. 7 |-> Pixel(f, col * GroupPixels(c) + (8 * k - 1 - i), y)[b]]
    BY <1>3, <2>3, <2>4, <2>6, <2>7, <2>9
  <2>11. /\ InGroup(c, y, col, o)
         /\ (o - c.base) % c.plane_stride = col * n + (o - from)
    <3>1. o \in Nat
      OBVIOUS
    <3>2. LET m == GroupPixels(c) \div 8
              at == GroupStart(c, y, col)
          IN  /\ o \in at .. at + m - 1 <=> InGroup(c, y, col, o)
              /\ o \in at .. at + m - 1 =>
                    (o - c.base) % c.plane_stride = col * m + (o - at)
      BY <3>1, Placed
    <3> QED BY <1>1, <1>2, <1>6, <3>2
  <2>12. ASSUME NEW i \in 0 .. 7
         PROVE  Wanted(c, p, o, i) = Pixel(f, col * GroupPixels(c) + (8 * k - 1 - i), y)[b]
    <3>1. (o - c.base) \div c.plane_stride = y
      BY <2>11 DEF InGroup
    <3>2. 8 * ((o - c.base) % c.plane_stride) + 7 - i
             = col * GroupPixels(c) + (8 * k - 1 - i)
      <4>1. PICK rem : rem = (o - c.base) % c.plane_stride
        OBVIOUS
      <4>2. CASE n = 1
        <5>1. rem = col + (o - from) /\ GroupPixels(c) = 8
          BY <1>1, <2>11, <4>1, <4>2
        <5> QED BY <2>5, <2>6, <4>1, <5>1
      <4>3. CASE n = 4
        <5>1. rem = 4 * col + (o - from) /\ GroupPixels(c) = 32
          BY <1>1, <2>11, <4>1, <4>3
        <5> QED BY <2>5, <2>6, <4>1, <5>1
      <4> QED BY <4>2, <4>3
    <3>3. (IF p % 2 = 0 THEN "front" ELSE "back") = f
      BY <2>4
    <3> QED BY <2>4, <3>1, <3>2, <3>3 DEF Wanted
  <2> QED BY <2>1, <2>10, <2>12
<1> HIDE DEF to, l0
<1>7. ASSUME NEW o \in DOMAIN planes[p]
      PROVE  o \in from .. from + n - 1 <=> InGroup(c, y, col, o)
  <2>1. o \in Nat
    OBVIOUS
  <2> QED BY <1>1, <1>2, <2>1, Placed
<1> QED BY <1>4, <1>5, <1>6, <1>7
-----------------------------------------------------------------------------
(***************************************************************************)
(* The invariant of the conversions.                                       *)
(***************************************************************************)
(* The byte o lies in a group before (y, col).                             *)
Behind(c, y, col, o) ==
    \/ (o - c.base) \div c.plane_stride < y
    \/ /\ (o - c.base) \div c.plane_stride = y
       /\ (o - c.base) % c.plane_stride < col * (GroupPixels(c) \div 8)

(* The calls that have written a byte of a plane.                          *)
WrittenBy(p, o) ==
    {k \in DOMAIN statuses :
        /\ statuses[k] = "ok" /\ Covers(calls[k], p, o)
        /\ stage = "convert" /\ k = call => Behind(Current, row, column, o)}

(* The byte is what the last of them has to write, or left as it was.      *)
LastWritten(byte, over, left, p, o) ==
    IF over = {} THEN byte = [i \in 0 .. 7 |-> left]
    ELSE \E k \in over : /\ \A m \in over : m <= k
                         /\ byte = [i \in 0 .. 7 |-> Wanted(calls[k], p, o, i)]

(* The calls, and what those that were validated returned.                 *)
ConversionTyped ==
    /\ calls \in Seq(ConversionCalls)
    /\ call \in 1 .. Len(calls) + 1 /\ stage \in {"validate", "convert"}
    /\ statuses \in Seq({"dimensions", "stride", "ok"})
    /\ Len(statuses) = IF stage = "convert" THEN call ELSE call - 1
    /\ \A k \in DOMAIN statuses : statuses[k] = Validate(calls[k])
    /\ \A p \in Planes : \A o \in DOMAIN planes[p] : o \in Nat

(* The group at work, and the registers of the 68k cores that go with it.  *)
GroupAtWork ==
    stage = "convert" =>
        /\ call <= Len(calls) /\ Accepted(Current)
        /\ row \in Nat /\ column \in Nat /\ row < Current.height
        /\ (column + 1) * GroupPixels(Current) <= Current.width
        /\ OnM68k(Current) =>
              /\ source = row * Current.layers[1].stride
                          + column * BytesOf(Current.layers[1].format, GroupPixels(Current))
              /\ target = GroupStart(Current, row, column)

(* Every byte of every plane.                                              *)
PlanesWritten(left) ==
    \A p \in Planes : \A o \in DOMAIN planes[p] :
        LastWritten(planes[p][o], WrittenBy(p, o), left, p, o)

(* The inductive invariant of the conversions.                             *)
ConversionInv(left) ==
    ConversionTyped /\ GroupAtWork /\ PlanesWritten(left)

-----------------------------------------------------------------------------

(* The sequence of statuses, one longer with each validation.              *)
LEMMA Statuses ==
  ASSUME ConversionTyped
  PROVE  /\ Len(calls) \in Nat /\ DOMAIN calls = 1 .. Len(calls)
         /\ call \in Nat
         /\ DOMAIN statuses = 1 .. Len(statuses) /\ Len(statuses) \in Nat
         /\ stage = "convert" => DOMAIN statuses = 1 .. call
         /\ stage = "validate" => DOMAIN statuses = 1 .. call - 1
         /\ \A s \in {"dimensions", "stride", "ok"} :
               /\ Append(statuses, s) \in Seq({"dimensions", "stride", "ok"})
               /\ Len(Append(statuses, s)) = Len(statuses) + 1
               /\ DOMAIN Append(statuses, s) = 1 .. Len(statuses) + 1
               /\ \A k \in DOMAIN statuses : Append(statuses, s)[k] = statuses[k]
               /\ Append(statuses, s)[Len(statuses) + 1] = s
<1>1. /\ calls \in Seq(ConversionCalls) /\ call \in 1 .. Len(calls) + 1
      /\ statuses \in Seq({"dimensions", "stride", "ok"})
      /\ Len(statuses) = IF stage = "convert" THEN call ELSE call - 1
  BY DEF ConversionTyped
<1>2. /\ Len(calls) \in Nat /\ DOMAIN calls = 1 .. Len(calls)
      /\ DOMAIN statuses = 1 .. Len(statuses) /\ Len(statuses) \in Nat
  BY <1>1, LenProperties
<1>3. ASSUME NEW s \in {"dimensions", "stride", "ok"}
      PROVE  /\ Append(statuses, s) \in Seq({"dimensions", "stride", "ok"})
             /\ Len(Append(statuses, s)) = Len(statuses) + 1
             /\ DOMAIN Append(statuses, s) = 1 .. Len(statuses) + 1
             /\ \A k \in DOMAIN statuses : Append(statuses, s)[k] = statuses[k]
             /\ Append(statuses, s)[Len(statuses) + 1] = s
  <2>1. /\ Append(statuses, s) \in Seq({"dimensions", "stride", "ok"})
        /\ Len(Append(statuses, s)) = Len(statuses) + 1
        /\ \A k \in 1 .. Len(statuses) : Append(statuses, s)[k] = statuses[k]
        /\ Append(statuses, s)[Len(statuses) + 1] = s
    BY <1>1, AppendProperties
  <2>2. DOMAIN Append(statuses, s) = 1 .. Len(Append(statuses, s))
    BY <2>1, LenProperties
  <2> QED BY <1>2, <2>1, <2>2
<1> QED BY <1>1, <1>2, <1>3

(* Validation returns one of three.                                        *)
LEMMA Verdicts == \A c : Validate(c) \in {"dimensions", "stride", "ok"}
BY DEF Validate

(* A call that is refused writes nothing.                                  *)
LEMMA RefuseCallKeeps ==
  ASSUME NEW left, ConversionInv(left), Refuse
  PROVE  ConversionInv(left)'
<1>1. /\ ConversionTyped /\ stage = "validate" /\ call <= Len(calls)
      /\ Validate(Current) # "ok" /\ statuses' = Append(statuses, Validate(Current))
      /\ call' = call + 1 /\ calls' = calls /\ stage' = stage /\ planes' = planes
  BY DEF ConversionInv, Refuse
<1>2. /\ call \in Nat /\ DOMAIN statuses = 1 .. call - 1 /\ Len(statuses) = call - 1
      /\ statuses' \in Seq({"dimensions", "stride", "ok"}) /\ Len(statuses') = call
      /\ DOMAIN statuses' = 1 .. call
      /\ \A k \in DOMAIN statuses : statuses'[k] = statuses[k]
      /\ statuses'[call] = Validate(Current)
  <2>1. Len(statuses) = call - 1 /\ call \in Nat
    BY <1>1, Statuses DEF ConversionTyped
  <2>2. Len(statuses) + 1 = call
    BY <2>1
  <2> QED BY <1>1, <2>1, <2>2, Statuses, Verdicts
<1>3. ConversionTyped'
  <2>1. call + 1 \in 1 .. Len(calls) + 1
    BY <1>1, <1>2, Statuses
  <2>2. \A k \in 1 .. call : statuses'[k] = Validate(calls[k])
    <3>1. \A k \in 1 .. call : k \in DOMAIN statuses \/ k = call
      BY <1>2
    <3>2. \A k \in DOMAIN statuses : statuses[k] = Validate(calls[k])
      BY <1>1 DEF ConversionTyped
    <3> QED BY <1>1, <1>2, <3>1, <3>2 DEF Current
  <2>3. Len(statuses') = call' - 1
    BY <1>1, <1>2
  <2> QED BY <1>1, <1>2, <2>1, <2>2, <2>3 DEF ConversionTyped
<1>4. GroupAtWork'
  BY <1>1 DEF GroupAtWork
<1>5. ASSUME NEW p \in Planes, NEW o \in DOMAIN planes[p]
      PROVE  WrittenBy(p, o)' = WrittenBy(p, o)
  <2>1. \A k \in 1 .. call : k \in DOMAIN statuses \/ k = call
    BY <1>2
  <2>2. DOMAIN statuses \subseteq 1 .. call
    BY <1>2
  <2> QED BY <1>1, <1>2, <2>1, <2>2 DEF WrittenBy
<1>6. PlanesWritten(left)'
  <2>1. ASSUME NEW p \in Planes, NEW o \in DOMAIN planes[p]
        PROVE  LastWritten(planes[p][o], WrittenBy(p, o), left, p, o)'
    <3>1. LastWritten(planes[p][o], WrittenBy(p, o), left, p, o)
      BY <2>1 DEF ConversionInv, PlanesWritten
    <3>2. PICK over : over = WrittenBy(p, o)
      OBVIOUS
    <3>3. WrittenBy(p, o)' = over
      BY <1>5, <2>1, <3>2
    <3> QED BY <1>1, <3>1, <3>2, <3>3 DEF LastWritten
  <2> QED BY <1>1, <2>1 DEF PlanesWritten
<1> QED BY <1>3, <1>4, <1>6 DEF ConversionInv

(* A call that is accepted begins before its first byte.                   *)
LEMMA AcceptCallKeeps ==
  ASSUME NEW left, ConversionInv(left), Accept
  PROVE  ConversionInv(left)'
<1>1. /\ ConversionTyped /\ stage = "validate" /\ call <= Len(calls)
      /\ Validate(Current) = "ok" /\ statuses' = Append(statuses, "ok")
      /\ row' = 0 /\ column' = 0 /\ source' = 0 /\ target' = Current.base
      /\ call' = call /\ calls' = calls /\ stage' = "convert" /\ planes' = planes
  BY DEF ConversionInv, Accept
<1>2. /\ call \in Nat /\ DOMAIN statuses = 1 .. call - 1 /\ Len(statuses) = call - 1
      /\ statuses' \in Seq({"dimensions", "stride", "ok"}) /\ Len(statuses') = call
      /\ DOMAIN statuses' = 1 .. call
      /\ \A k \in DOMAIN statuses : statuses'[k] = statuses[k]
      /\ statuses'[call] = "ok"
  <2>1. Len(statuses) = call - 1 /\ call \in Nat
    BY <1>1, Statuses DEF ConversionTyped
  <2>2. Len(statuses) + 1 = call
    BY <2>1
  <2> QED BY <1>1, <2>1, <2>2, Statuses
<1>3. ConversionTyped'
  <2>1. call \in 1 .. Len(calls) + 1
    BY <1>1 DEF ConversionTyped
  <2>2. \A k \in 1 .. call : statuses'[k] = Validate(calls[k])
    <3>1. \A k \in 1 .. call : k \in DOMAIN statuses \/ k = call
      BY <1>2
    <3>2. \A k \in DOMAIN statuses : statuses[k] = Validate(calls[k])
      BY <1>1 DEF ConversionTyped
    <3> QED BY <1>1, <1>2, <3>1, <3>2 DEF Current
  <2> QED BY <1>1, <1>2, <2>1, <2>2 DEF ConversionTyped
<1>4. Accepted(Current)
  <2>1. call \in 1 .. Len(calls) /\ calls \in Seq(ConversionCalls)
    BY <1>1, <1>2, Statuses DEF ConversionTyped
  <2>2. Current \in ConversionCalls
    BY <2>1, ElementOfSeq DEF Current
  <2> QED BY <1>1, <2>2 DEF Accepted
<1>5. GroupAtWork'
  <2>1. PICK c : c = Current
    OBVIOUS
  <2>2. Current' = c
    BY <1>1, <2>1 DEF Current
  <2>3. /\ 0 < c.height /\ (0 + 1) * GroupPixels(c) <= c.width
    <3>1. /\ c.height \in Nat /\ c.height # 0 /\ c.width \in Nat /\ c.width # 0
          /\ GroupPixels(c) \in {8, 32} /\ c.width % GroupPixels(c) = 0
      BY <1>4, <2>1, AcceptedParts
    <3>2. PICK w \in Nat : w = c.width
      BY <3>1
    <3>3. CASE GroupPixels(c) = 8
      <4>1. w % 8 = 0 /\ w # 0
        BY <3>1, <3>2, <3>3
      <4> QED BY <3>1, <3>2, <3>3, <4>1
    <3>4. CASE GroupPixels(c) = 32
      <4>1. w % 32 = 0 /\ w # 0
        BY <3>1, <3>2, <3>4
      <4> QED BY <3>1, <3>2, <3>4, <4>1
    <3> QED BY <3>1, <3>3, <3>4
  <2>4. /\ 0 * c.layers[1].stride
             + 0 * BytesOf(c.layers[1].format, GroupPixels(c)) = 0
        /\ GroupStart(c, 0, 0) = c.base
    <3>1. /\ c.base \in Nat /\ c.plane_stride \in Nat /\ c.layers[1] \in Layers
          /\ GroupPixels(c) \in {8, 32}
      BY <1>4, <2>1, AcceptedParts
    <3>2. /\ c.layers[1].stride \in Nat /\ GroupPixels(c) \div 8 \in Nat
          /\ BytesOf(c.layers[1].format, GroupPixels(c)) \in Nat
      BY <3>1 DEF Layers, BytesOf
    <3> QED BY <3>1, <3>2 DEF GroupStart
  <2> QED BY <1>1, <1>4, <2>1, <2>2, <2>3, <2>4 DEF GroupAtWork
<1>6. ASSUME NEW p \in Planes, NEW o \in DOMAIN planes[p]
      PROVE  WrittenBy(p, o)' = WrittenBy(p, o)
  <2>1. \A k \in 1 .. call : k \in DOMAIN statuses \/ k = call
    BY <1>2
  <2>2. DOMAIN statuses \subseteq 1 .. call /\ call \notin DOMAIN statuses
    BY <1>2
  <2>3. ASSUME Covers(Current, p, o)
        PROVE  ~Behind(Current, 0, 0, o)
    <3>1. PICK c : c = Current
      OBVIOUS
    <3>2. PICK a \in Nat : a = o - c.base
      <4>1. o \in Nat /\ o >= c.base /\ c.base \in Nat
        BY <1>1, <1>4, <2>3, <3>1, AcceptedParts DEF ConversionTyped, Covers
      <4> QED BY <4>1
    <3>3. PICK s \in Nat \ {0} : s = c.plane_stride
      BY <1>4, <3>1, AcceptedParts
    <3>4. a \div s \in Nat /\ a % s \in Nat
      BY DivMod
    <3>5. 0 * (GroupPixels(c) \div 8) = 0
      BY <1>4, <3>1, AcceptedParts
    <3>6. ~(a \div s < 0) /\ ~(a % s < 0)
      BY <3>4
    <3> QED BY <3>1, <3>2, <3>3, <3>5, <3>6 DEF Behind
  <2> QED BY <1>1, <1>2, <2>1, <2>2, <2>3 DEF WrittenBy, Current
<1>7. PlanesWritten(left)'
  <2>1. ASSUME NEW p \in Planes, NEW o \in DOMAIN planes[p]
        PROVE  LastWritten(planes[p][o], WrittenBy(p, o), left, p, o)'
    <3>1. WrittenBy(p, o)' = WrittenBy(p, o)
      BY <1>6
    <3>2. LastWritten(planes[p][o], WrittenBy(p, o), left, p, o)
      BY DEF ConversionInv, PlanesWritten
    <3> QED BY <1>1, <3>1, <3>2 DEF LastWritten
  <2> QED BY <1>1, <2>1 DEF PlanesWritten
<1> QED BY <1>3, <1>5, <1>7 DEF ConversionInv

(* The registers of the 68k cores address what the C loops compute.        *)
LEMMA WorkAddresses ==
  ASSUME NEW c, c = Current, GroupAtWork, stage = "convert"
  PROVE  AddressesExact(c, row, column)
<1>1. /\ Accepted(c) /\ row \in Nat /\ column \in Nat
      /\ OnM68k(c) =>
            /\ source = row * c.layers[1].stride
                        + column * BytesOf(c.layers[1].format, GroupPixels(c))
            /\ target = GroupStart(c, row, column)
  BY DEF GroupAtWork
<1>2. CASE ~OnM68k(c)
  BY <1>1, <1>2 DEF AddressesExact, SourceAddress, TargetAddress, GroupStart
<1>3. CASE OnM68k(c)
  <2>1. DOMAIN c.layers = {1}
    <3>1. c.backend # "reference" /\ c \in ConversionCalls
      BY <1>1, <1>3 DEF OnM68k, Accepted
    <3>2. Len(c.layers) = 1 /\ c.layers \in Seq(Layers)
      BY <3>1 DEF ConversionCalls
    <3>3. DOMAIN c.layers = 1 .. 1
      BY <3>2, LenProperties
    <3> QED BY <3>3
  <2> QED BY <1>1, <1>3, <2>1 DEF AddressesExact, SourceAddress, TargetAddress
<1> QED BY <1>2, <1>3

(* One more group, or one more row, is behind.                             *)
LEMMA BehindNext ==
  ASSUME NEW c, Accepted(c), NEW y \in Nat, NEW col \in Nat,
         (col + 1) * GroupPixels(c) <= c.width, NEW o \in Nat,
         o >= c.base
  PROVE  /\ Behind(c, y, col + 1, o) <=> Behind(c, y, col, o) \/ InGroup(c, y, col, o)
         /\ (col + 1) * GroupPixels(c) = c.width
            /\ (o - c.base) % c.plane_stride < c.width \div 8 =>
               (Behind(c, y + 1, 0, o)
                  <=> Behind(c, y, col, o) \/ InGroup(c, y, col, o))
<1>1. PICK n \in {1, 4} : n = GroupPixels(c) \div 8 /\ 8 * n = GroupPixels(c)
  BY AcceptedParts
<1>2. PICK s \in Nat \ {0}, base \in Nat : s = c.plane_stride /\ base = c.base
  BY AcceptedParts
<1>3. PICK a \in Nat : a = o - base
  BY <1>2
<1>4. a \div s \in Nat /\ a % s \in Nat
  BY DivMod
<1>5. PICK q \in Nat, r \in Nat : q = a \div s /\ r = a % s
  BY <1>4
<1>6. PICK start \in Nat : start = col * n /\ (col + 1) * n = start + n
  OBVIOUS
<1>7. PICK w \in Nat : w = c.width
  BY AcceptedParts
<1>8. Behind(c, y, col, o) <=> q < y \/ (q = y /\ r < start)
  BY <1>1, <1>2, <1>3, <1>5, <1>6 DEF Behind
<1>9. Behind(c, y, col + 1, o) <=> q < y \/ (q = y /\ r < start + n)
  BY <1>1, <1>2, <1>3, <1>5, <1>6 DEF Behind
<1>10. Behind(c, y + 1, 0, o) <=> q < y + 1
  <2>1. PICK z \in Nat : z = 0 /\ z * n = 0
    OBVIOUS
  <2>2. Behind(c, y + 1, z, o) <=> q < y + 1 \/ (q = y + 1 /\ r < z * n)
    BY <1>1, <1>2, <1>3, <1>5 DEF Behind
  <2> QED BY <2>1, <2>2
<1>11. InGroup(c, y, col, o) <=> q = y /\ start <= r /\ r < start + n
  BY <1>1, <1>2, <1>3, <1>5, <1>6 DEF InGroup
<1>12. (col + 1) * GroupPixels(c) = c.width => w \div 8 = start + n
  <2>1. CASE n = 1
    BY <1>1, <1>6, <1>7, <2>1
  <2>2. CASE n = 4
    BY <1>1, <1>6, <1>7, <2>2
  <2> QED BY <2>1, <2>2
<1> QED BY <1>2, <1>3, <1>5, <1>7, <1>8, <1>9, <1>10, <1>11, <1>12

(* A row ends with a group, so that another fits unless this is the last.  *)
LEMMA AnotherGroup ==
  ASSUME NEW c, Accepted(c), NEW col \in Nat,
         (col + 1) * GroupPixels(c) <= c.width, (col + 1) * GroupPixels(c) # c.width
  PROVE  ((col + 1) + 1) * GroupPixels(c) <= c.width
<1>1. PICK w \in Nat : w = c.width
  BY AcceptedParts
<1>2. w % GroupPixels(c) = 0 /\ GroupPixels(c) \in {8, 32}
  BY <1>1, AcceptedParts
<1>3. CASE GroupPixels(c) = 8
  <2>1. w % 8 = 0
    BY <1>2, <1>3
  <2> QED BY <1>1, <1>3, <2>1
<1>4. CASE GroupPixels(c) = 32
  <2>1. w % 32 = 0
    BY <1>2, <1>4
  <2> QED BY <1>1, <1>4, <2>1
<1> QED BY <1>2, <1>3, <1>4

(* The registers go on to the next group, or to the next row.              *)
LEMMA RegistersNext ==
  ASSUME NEW c, Accepted(c), OnM68k(c), NEW y \in Nat, NEW col \in Nat,
         (col + 1) * GroupPixels(c) <= c.width
  PROVE  LET layer == c.layers[1]
             size == BytesOf(layer.format, GroupPixels(c))
             from == y * layer.stride + col * size
             to == GroupStart(c, y, col)
             n == GroupPixels(c) \div 8
         IN  /\ from + size = y * layer.stride + (col + 1) * size
             /\ to + n = GroupStart(c, y, col + 1)
             /\ (col + 1) * GroupPixels(c) = c.width =>
                   /\ from + size + SourceSkip(c) = (y + 1) * layer.stride + 0 * size
                   /\ to + n + TargetSkip(c) = GroupStart(c, y + 1, 0)
<1>1. PICK n \in {1, 4} : n = GroupPixels(c) \div 8 /\ 8 * n = GroupPixels(c)
  BY AcceptedParts
<1>2. PICK s \in Nat, base \in Nat : s = c.plane_stride /\ base = c.base
  BY AcceptedParts
<1>3. PICK stride \in Nat : stride = c.layers[1].stride
  BY AcceptedParts DEF Layers
<1>4. PICK w \in Nat : w = c.width
  BY AcceptedParts
<1>5. PICK size \in Nat : /\ size = BytesOf(c.layers[1].format, GroupPixels(c))
                         /\ \/ size = 8 * n /\ BytesOf(c.layers[1].format, w) = w
                            \/ size = 4 * n /\ BytesOf(c.layers[1].format, w) = w \div 2
  <2>1. CASE c.layers[1].format = "packed4"
    <3>1. /\ BytesOf(c.layers[1].format, GroupPixels(c)) = (8 * n) \div 2
          /\ BytesOf(c.layers[1].format, w) = w \div 2
      BY <1>1, <2>1 DEF BytesOf
    <3>2. (8 * n) \div 2 = 4 * n
      OBVIOUS
    <3> QED BY <3>1, <3>2
  <2>2. CASE c.layers[1].format # "packed4"
    <3>1. /\ BytesOf(c.layers[1].format, GroupPixels(c)) = 8 * n
          /\ BytesOf(c.layers[1].format, w) = w
      BY <1>1, <2>2 DEF BytesOf
    <3> QED BY <3>1
  <2> QED BY <2>1, <2>2
<1>6. PICK above \in Nat, start \in Nat : above = y * stride /\ start = col * size
  OBVIOUS
<1>7. (y + 1) * stride = above + stride /\ (col + 1) * size = start + size
  BY <1>6
<1>8. PICK above2 \in Nat, start2 \in Nat : above2 = y * s /\ start2 = col * n
  OBVIOUS
<1>9. (y + 1) * s = above2 + s /\ (col + 1) * n = start2 + n
  BY <1>8
<1>10. ASSUME (col + 1) * GroupPixels(c) = c.width
       PROVE  w \div 8 = start2 + n /\ BytesOf(c.layers[1].format, w) = start + size
  <2>1. CASE n = 1
    <3>1. w = 8 * col + 8 /\ start2 = col
      BY <1>1, <1>4, <1>8, <1>10, <2>1
    <3> QED BY <1>5, <1>6, <2>1, <3>1
  <2>2. CASE n = 4
    <3>1. w = 32 * col + 32 /\ start2 = 4 * col
      BY <1>1, <1>4, <1>8, <1>10, <2>2
    <3> QED BY <1>5, <1>6, <2>2, <3>1
  <2> QED BY <2>1, <2>2
<1>11. GroupStart(c, y, col) = base + above2 + start2
  BY <1>1, <1>2, <1>8 DEF GroupStart
<1>12. GroupStart(c, y, col + 1) = base + above2 + start2 + n
  BY <1>1, <1>2, <1>8, <1>9 DEF GroupStart
<1>13. GroupStart(c, y + 1, 0) = base + above2 + s
  BY <1>1, <1>2, <1>8, <1>9 DEF GroupStart
<1>14. 0 * size = 0
  OBVIOUS
<1>15. (col + 1) * GroupPixels(c) = c.width =>
          /\ SourceSkip(c) = stride - (start + size)
          /\ TargetSkip(c) = s - (start2 + n)
  BY <1>2, <1>3, <1>4, <1>10 DEF SourceSkip, TargetSkip
<1>16. (col + 1) * GroupPixels(c) = c.width =>
         /\ above + start + size + SourceSkip(c) = (y + 1) * stride + 0 * size
         /\ base + above2 + start2 + n + TargetSkip(c) = GroupStart(c, y + 1, 0)
  BY <1>7, <1>13, <1>14, <1>15
<1>17. /\ above + start + size = y * stride + (col + 1) * size
       /\ base + above2 + start2 + n = GroupStart(c, y, col + 1)
  BY <1>6, <1>7, <1>12
<1> QED BY <1>1, <1>3, <1>5, <1>6, <1>11, <1>16, <1>17

(* A byte of a group is a byte the call has to write.                      *)
LEMMA CoveredInGroup ==
  ASSUME NEW c, Accepted(c), NEW y \in Nat, y < c.height, NEW col \in Nat,
         (col + 1) * GroupPixels(c) <= c.width, NEW p, NEW o \in Nat,
         ToPlane(c, p), InGroup(c, y, col, o)
  PROVE  Covers(c, p, o)
<1>1. PICK n \in {1, 4} : n = GroupPixels(c) \div 8 /\ 8 * n = GroupPixels(c)
  BY AcceptedParts
<1>2. PICK w \in Nat : w = c.width
  BY AcceptedParts
<1>3. (col + 1) * n <= w \div 8
  <2>1. CASE n = 1
    BY <1>1, <1>2, <2>1
  <2>2. CASE n = 4
    BY <1>1, <1>2, <2>2
  <2> QED BY <2>1, <2>2
<1>4. /\ o >= c.base /\ (o - c.base) \div c.plane_stride = y
      /\ (o - c.base) % c.plane_stride < (col + 1) * n
  BY <1>1 DEF InGroup
<1>5. (o - c.base) % c.plane_stride \in Nat /\ w \div 8 \in Nat
  <2>1. PICK s \in Nat \ {0}, base \in Nat : s = c.plane_stride /\ base = c.base
    BY AcceptedParts
  <2>2. PICK a \in Nat : a = o - base
    BY <1>4, <2>1
  <2>3. a % s \in Nat
    BY DivMod
  <2> QED BY <1>2, <2>1, <2>2, <2>3
<1>6. (o - c.base) % c.plane_stride < w \div 8
  BY <1>3, <1>4, <1>5
<1> QED BY <1>2, <1>4, <1>6 DEF Covers, ToPlane

(* The calls that have written a byte after one more group of this one.    *)
LEMMA WrittenNext ==
  ASSUME NEW left, ConversionInv(left), ConvertGroup,
         NEW p \in Planes, NEW o \in DOMAIN planes[p]
  PROVE  WrittenBy(p, o)'
            = WrittenBy(p, o) \union
              {k \in {call} : Covers(Current, p, o) /\ InGroup(Current, row, column, o)}
<1>1. /\ ConversionTyped /\ GroupAtWork /\ stage = "convert"
      /\ calls' = calls /\ statuses' = statuses
  BY DEF ConversionInv, ConvertGroup
<1>2. PICK c : c = Current
  OBVIOUS
<1>3. /\ Accepted(c) /\ row \in Nat /\ column \in Nat /\ row < c.height
      /\ (column + 1) * GroupPixels(c) <= c.width /\ call <= Len(calls)
  BY <1>1, <1>2 DEF GroupAtWork
<1>4. o \in Nat
  BY <1>1 DEF ConversionTyped
<1>5. call \in Nat /\ DOMAIN statuses = 1 .. call /\ call \in DOMAIN statuses
  <2>1. PICK length \in Nat : length = Len(calls)
    BY <1>1, Statuses
  <2>2. call \in 1 .. length + 1
    BY <1>1, <2>1 DEF ConversionTyped
  <2>3. DOMAIN statuses = 1 .. call
    BY <1>1, Statuses
  <2> QED BY <2>2, <2>3
<1>6. statuses[call] = "ok"
  BY <1>1, <1>2, <1>3, <1>5 DEF ConversionTyped, Accepted, Current
<1>7. calls[call] = c
  BY <1>2 DEF Current
<1>8. WrittenBy(p, o) = {k \in 1 .. call :
                           /\ statuses[k] = "ok" /\ Covers(calls[k], p, o)
                           /\ k = call => Behind(c, row, column, o)}
  BY <1>1, <1>2, <1>5 DEF WrittenBy
<1>9. Covers(c, p, o) => o >= c.base /\ (o - c.base) % c.plane_stride < c.width \div 8
                         /\ (o - c.base) \div c.plane_stride < c.height
  BY DEF Covers
<1>10. EndOfRow(c) <=> (column + 1) * GroupPixels(c) = c.width
  BY DEF EndOfRow
<1>11. PICK behind \in BOOLEAN :
          behind <=> Behind(c, row, column, o) \/ InGroup(c, row, column, o)
  OBVIOUS
<1>12. WrittenBy(p, o)' = {k \in 1 .. call :
                             /\ statuses[k] = "ok" /\ Covers(calls[k], p, o)
                             /\ k = call => behind}
  <2>1. CASE ~EndOfRow(c)
    <3>1. /\ stage' = "convert" /\ call' = call /\ row' = row /\ column' = column + 1
          /\ Current' = c
      BY <1>1, <1>2, <2>1 DEF ConvertGroup, Current
    <3>2. Covers(c, p, o) => (Behind(c, row, column + 1, o) <=> behind)
      BY <1>3, <1>4, <1>9, <1>11, BehindNext
    <3>3. WrittenBy(p, o)' = {k \in 1 .. call :
                               /\ statuses[k] = "ok" /\ Covers(calls[k], p, o)
                               /\ k = call => Behind(c, row, column + 1, o)}
      BY <1>1, <1>5, <3>1 DEF WrittenBy
    <3> QED BY <1>7, <3>2, <3>3
  <2>2. CASE EndOfRow(c) /\ row + 1 # c.height
    <3>1. /\ stage' = "convert" /\ call' = call /\ row' = row + 1 /\ column' = 0
          /\ Current' = c
      BY <1>1, <1>2, <2>2 DEF ConvertGroup, Current
    <3>2. Covers(c, p, o) => (Behind(c, row + 1, 0, o) <=> behind)
      BY <1>3, <1>4, <1>9, <1>10, <1>11, <2>2, BehindNext
    <3>3. WrittenBy(p, o)' = {k \in 1 .. call :
                               /\ statuses[k] = "ok" /\ Covers(calls[k], p, o)
                               /\ k = call => Behind(c, row + 1, 0, o)}
      BY <1>1, <1>5, <3>1 DEF WrittenBy
    <3> QED BY <1>7, <3>2, <3>3
  <2>3. CASE EndOfRow(c) /\ row + 1 = c.height
    <3>1. stage' = "validate" /\ call' = call + 1
      BY <1>1, <1>2, <2>3 DEF ConvertGroup, Current
    <3>2. Covers(c, p, o) => behind
      <4> SUFFICES ASSUME Covers(c, p, o) PROVE behind
        OBVIOUS
      <4>1. (o - c.base) \div c.plane_stride < row + 1
        BY <1>9, <2>3
      <4>2. Behind(c, row + 1, 0, o)
        BY <4>1 DEF Behind
      <4> QED BY <1>3, <1>4, <1>9, <1>10, <1>11, <2>3, <4>2, BehindNext
    <3>3. WrittenBy(p, o)' = {k \in 1 .. call :
                               statuses[k] = "ok" /\ Covers(calls[k], p, o)}
      BY <1>1, <1>5, <3>1 DEF WrittenBy
    <3> QED BY <1>7, <3>2, <3>3
  <2> QED BY <2>1, <2>2, <2>3
<1> HIDE DEF Current
<1> QED BY <1>2, <1>5, <1>6, <1>7, <1>8, <1>11, <1>12

(* After a group every byte is as its last writer has to leave it.         *)
LEMMA GroupKeepsWritten ==
  ASSUME NEW left, ConversionInv(left), ConvertGroup
  PROVE  /\ PlanesWritten(left)'
         /\ \A p \in Planes : DOMAIN planes'[p] = DOMAIN planes[p]
<1>1. /\ ConversionTyped /\ GroupAtWork /\ stage = "convert"
      /\ calls' = calls /\ planes' = Stored(Current)
  BY DEF ConversionInv, ConvertGroup
<1>2. PICK c : c = Current
  OBVIOUS
<1>3. /\ Accepted(c) /\ row \in Nat /\ column \in Nat /\ row < c.height
      /\ (column + 1) * GroupPixels(c) <= c.width
  BY <1>1, <1>2 DEF GroupAtWork
<1>4. AddressesExact(c, row, column)
  BY <1>1, <1>2, WorkAddresses
<1>5. ASSUME NEW p \in Planes
      PROVE  /\ DOMAIN planes'[p] = DOMAIN planes[p]
             /\ \A o \in DOMAIN planes[p] :
                   planes'[p][o] = IF ToPlane(c, p) /\ InGroup(c, row, column, o)
                                   THEN [i \in 0 .. 7 |-> Wanted(c, p, o, i)]
                                   ELSE planes[p][o]
  <2>1. \A o \in DOMAIN planes[p] : o \in Nat
    BY <1>1 DEF ConversionTyped
  <2>2. /\ DOMAIN Stored(c)[p] = DOMAIN planes[p]
        /\ \A o \in DOMAIN planes[p] :
              Stored(c)[p][o] = IF ToPlane(c, p) /\ InGroup(c, row, column, o)
                                THEN [i \in 0 .. 7 |-> Wanted(c, p, o, i)]
                                ELSE planes[p][o]
    BY <1>3, <1>4, <1>5, <2>1, StoredBytes
  <2>3. planes' = Stored(c)
    BY <1>1, <1>2
  <2> QED BY <2>2, <2>3
<1>6. ASSUME NEW p \in Planes, NEW o \in DOMAIN planes[p]
      PROVE  LastWritten(planes[p][o], WrittenBy(p, o), left, p, o)'
  <2>1. PICK over : over = WrittenBy(p, o)
    OBVIOUS
  <2>2. LastWritten(planes[p][o], over, left, p, o)
    BY <1>6, <2>1 DEF ConversionInv, PlanesWritten
  <2>3. WrittenBy(p, o)'
           = over \union {k \in {call} : Covers(c, p, o) /\ InGroup(c, row, column, o)}
    BY <1>2, <1>6, <2>1, WrittenNext
  <2>4. o \in Nat
    BY <1>1 DEF ConversionTyped
  <2>5. over \subseteq 1 .. call /\ call \in Nat
    BY <1>1, <2>1, Statuses DEF WrittenBy
  <2>6. Covers(c, p, o) => ToPlane(c, p)
    BY DEF Covers, ToPlane
  <2>7. CASE ToPlane(c, p) /\ InGroup(c, row, column, o)
    <3>1. Covers(c, p, o)
      BY <1>3, <2>4, <2>7, CoveredInGroup
    <3>2. WrittenBy(p, o)' = over \union {call}
      BY <2>3, <2>7, <3>1
    <3>3. planes'[p][o] = [i \in 0 .. 7 |-> Wanted(calls'[call], p, o, i)]
      BY <1>1, <1>2, <1>5, <2>7 DEF Current
    <3>4. \A m \in over \union {call} : m <= call
      BY <2>5
    <3> QED BY <3>2, <3>3, <3>4 DEF LastWritten
  <2>8. CASE ~(ToPlane(c, p) /\ InGroup(c, row, column, o))
    <3>1. WrittenBy(p, o)' = over
      BY <2>3, <2>6, <2>8
    <3>2. planes'[p][o] = planes[p][o]
      BY <1>5, <2>8
    <3> QED BY <1>1, <2>2, <3>1, <3>2 DEF LastWritten
  <2> QED BY <2>7, <2>8
<1>7. \A p \in Planes : DOMAIN planes'[p] = DOMAIN planes[p]
  BY <1>5
<1> QED BY <1>6, <1>7 DEF PlanesWritten

(* A group converted, in a row, at its end or at the end of the image.     *)
LEMMA ConvertGroupKeeps ==
  ASSUME NEW left, ConversionInv(left), ConvertGroup
  PROVE  ConversionInv(left)'
<1>1. /\ ConversionTyped /\ GroupAtWork /\ stage = "convert"
      /\ calls' = calls /\ statuses' = statuses
  BY DEF ConversionInv, ConvertGroup
<1>2. PICK c : c = Current
  OBVIOUS
<1>3. /\ Accepted(c) /\ row \in Nat /\ column \in Nat /\ row < c.height
      /\ (column + 1) * GroupPixels(c) <= c.width /\ call <= Len(calls)
      /\ c.height \in Nat
  BY <1>1, <1>2, AcceptedParts DEF GroupAtWork
<1>4. PICK length \in Nat : length = Len(calls)
  BY <1>1, Statuses
<1>5. /\ call \in 1 .. length /\ statuses \in Seq({"dimensions", "stride", "ok"})
      /\ Len(statuses) = call /\ calls \in Seq(ConversionCalls)
      /\ \A k \in DOMAIN statuses : statuses[k] = Validate(calls[k])
  BY <1>1, <1>3, <1>4 DEF ConversionTyped
<1>6. PlanesWritten(left)' /\ \A p \in Planes : DOMAIN planes'[p] = DOMAIN planes[p]
  BY GroupKeepsWritten
<1>7. \A p \in Planes : \A o \in DOMAIN planes'[p] : o \in Nat
  BY <1>1, <1>6 DEF ConversionTyped
<1>8. EndOfRow(c) <=> (column + 1) * GroupPixels(c) = c.width
  BY DEF EndOfRow
<1>9. OnM68k(c) =>
         /\ source = row * c.layers[1].stride
                     + column * BytesOf(c.layers[1].format, GroupPixels(c))
         /\ target = GroupStart(c, row, column)
  BY <1>1, <1>2 DEF GroupAtWork
<1>10. CASE EndOfRow(c) /\ row + 1 = c.height
  <2>1. stage' = "validate" /\ call' = call + 1
    BY <1>2, <1>10 DEF ConvertGroup
  <2>2. ConversionTyped'
    <3>1. call' \in 1 .. length + 1 /\ Len(statuses) = call' - 1
      BY <1>5, <2>1
    <3> QED BY <1>1, <1>4, <1>5, <1>7, <2>1, <3>1 DEF ConversionTyped
  <2>3. GroupAtWork'
    BY <2>1 DEF GroupAtWork
  <2> QED BY <1>6, <2>2, <2>3 DEF ConversionInv
<1>11. CASE ~(EndOfRow(c) /\ row + 1 = c.height)
  <2>1. stage' = "convert" /\ call' = call /\ Current' = c
    BY <1>1, <1>2, <1>11 DEF ConvertGroup, Current
  <2>2. ConversionTyped'
    <3>1. call \in 1 .. length + 1
      BY <1>5
    <3> QED BY <1>1, <1>4, <1>5, <1>7, <2>1, <3>1 DEF ConversionTyped
  <2>3. CASE EndOfRow(c)
    <3>1. /\ row' = row + 1 /\ column' = 0
          /\ source' = source + BytesOf(c.layers[1].format, GroupPixels(c)) + SourceSkip(c)
          /\ target' = target + GroupPixels(c) \div 8 + TargetSkip(c)
      BY <1>2, <2>3 DEF ConvertGroup
    <3>2. row + 1 \in Nat /\ row + 1 < c.height
      BY <1>3, <1>11, <2>3
    <3>3. (0 + 1) * GroupPixels(c) <= c.width
      <4>1. c.width \in Nat /\ c.width # 0 /\ GroupPixels(c) \in {8, 32}
            /\ c.width = (column + 1) * GroupPixels(c)
        BY <1>3, <1>8, <2>3, AcceptedParts
      <4> QED BY <1>3, <4>1
    <3>4. OnM68k(c) =>
             /\ source' = (row + 1) * c.layers[1].stride
                          + 0 * BytesOf(c.layers[1].format, GroupPixels(c))
             /\ target' = GroupStart(c, row + 1, 0)
      BY <1>3, <1>8, <1>9, <2>3, <3>1, RegistersNext, SMTT(30)
    <3>5. GroupAtWork'
      BY <1>1, <1>3, <2>1, <3>1, <3>2, <3>3, <3>4 DEF GroupAtWork
    <3> QED BY <1>6, <2>2, <3>5 DEF ConversionInv
  <2>4. CASE ~EndOfRow(c)
    <3>1. PICK size : size = BytesOf(c.layers[1].format, GroupPixels(c))
      OBVIOUS
    <3>2. /\ row' = row /\ column' = column + 1
          /\ source' = source + size + 0 /\ target' = target + GroupPixels(c) \div 8 + 0
      BY <1>2, <2>4, <3>1 DEF ConvertGroup
    <3>3. ((column + 1) + 1) * GroupPixels(c) <= c.width
      BY <1>3, <1>8, <2>4, AnotherGroup
    <3>4. OnM68k(c) =>
             /\ source' = row * c.layers[1].stride + (column + 1) * size
             /\ target' = GroupStart(c, row, column + 1)
      <4> SUFFICES ASSUME OnM68k(c)
                   PROVE  /\ source' = row * c.layers[1].stride + (column + 1) * size
                          /\ target' = GroupStart(c, row, column + 1)
        OBVIOUS
      <4>1. /\ source + size = row * c.layers[1].stride + (column + 1) * size
            /\ target + GroupPixels(c) \div 8 = GroupStart(c, row, column + 1)
        BY <1>3, <1>9, <3>1, RegistersNext
      <4>2. source + size \in Int /\ target + GroupPixels(c) \div 8 \in Int
        <5>1. /\ c.layers[1] \in Layers /\ c.base \in Nat
              /\ c.plane_stride \in Nat /\ GroupPixels(c) \in {8, 32}
          BY <1>3, AcceptedParts
        <5>2. size \in Nat /\ c.layers[1].stride \in Nat
          BY <3>1, <5>1 DEF Layers, BytesOf
        <5>3. PICK n \in {1, 4}, s \in Nat, stride \in Nat, y \in Nat, x \in Nat :
                 /\ n = GroupPixels(c) \div 8 /\ s = c.plane_stride
                 /\ stride = c.layers[1].stride /\ y = row /\ x = column
          BY <1>3, <5>1, <5>2
        <5>4. y * stride + x * size \in Int /\ c.base + y * s + x * n \in Int
          BY <5>1, <5>2, <5>3
        <5>5. source \in Int /\ target \in Int
          BY <1>9, <3>1, <5>3, <5>4 DEF GroupStart
        <5> QED BY <5>2, <5>3, <5>5
      <4>3. PICK a \in Int, b \in Int :
               a = source + size /\ b = target + GroupPixels(c) \div 8
        BY <4>2
      <4> QED BY <3>2, <4>1, <4>3
    <3>5. GroupAtWork'
      <4>1. column + 1 \in Nat
        BY <1>3
      <4> QED BY <1>1, <1>3, <2>1, <3>1, <3>2, <3>3, <3>4, <4>1 DEF GroupAtWork
    <3> QED BY <1>6, <2>2, <3>5 DEF ConversionInv
  <2> QED BY <2>3, <2>4
<1> QED BY <1>10, <1>11

(* Every step of a conversion.                                             *)
LEMMA ConversionStepKeeps ==
  ASSUME NEW left, ConversionInv(left), ConversionNext \/ UNCHANGED conversionVars
  PROVE  ConversionInv(left)'
<1>1. CASE UNCHANGED conversionVars
  <2>1. /\ calls' = calls /\ call' = call /\ statuses' = statuses /\ stage' = stage
        /\ row' = row /\ column' = column /\ source' = source /\ target' = target
        /\ planes' = planes
    BY <1>1 DEF conversionVars
  <2>2. ConversionTyped'
    BY <2>1 DEF ConversionInv, ConversionTyped
  <2>3. GroupAtWork'
    BY <2>1 DEF ConversionInv, GroupAtWork, Current
  <2>4. ASSUME NEW p, NEW o
        PROVE  WrittenBy(p, o)' = WrittenBy(p, o)
    BY <2>1 DEF WrittenBy, Current
  <2>5. PlanesWritten(left)'
    <3>1. ASSUME NEW p \in Planes, NEW o \in DOMAIN planes[p]
          PROVE  LastWritten(planes[p][o], WrittenBy(p, o), left, p, o)'
      <4>1. LastWritten(planes[p][o], WrittenBy(p, o), left, p, o)
        BY <3>1 DEF ConversionInv, PlanesWritten
      <4>2. PICK over : over = WrittenBy(p, o)
        OBVIOUS
      <4>3. WrittenBy(p, o)' = over
        BY <2>4, <4>2
      <4> QED BY <2>1, <4>1, <4>2, <4>3 DEF LastWritten
    <3> QED BY <2>1, <3>1 DEF PlanesWritten
  <2> QED BY <2>2, <2>3, <2>5 DEF ConversionInv
<1> QED BY <1>1, RefuseCallKeeps, AcceptCallKeeps, ConvertGroupKeeps DEF ConversionNext

(* The job's own planes, converted so far.                                 *)
ConvertedInv ==
    /\ job \in Jobs
    /\ \A p \in Planes : DOMAIN planes[p] = 0 .. job.plane_bytes - 1
    /\ ConversionInv(IF job.cleared THEN Zero ELSE Other("old"))

(* Before the first call.                                                  *)
LEMMA ConversionStarts ==
  ASSUME NEW j \in Jobs, NEW left, left = IF j.cleared THEN Zero ELSE Other("old"),
         ConversionInit(j.calls, Memory(j))
  PROVE  ConversionInv(left)
<1>1. /\ calls = j.calls /\ call = 1 /\ statuses = <<>> /\ stage = "validate"
      /\ planes = Memory(j)
  BY DEF ConversionInit
<1>2. j.calls \in Seq(ConversionCalls) /\ j.plane_bytes \in Nat
  BY JobsAssumption
<1>3. Len(calls) \in Nat /\ Len(statuses) = 0 /\ DOMAIN statuses = {}
      /\ statuses \in Seq({"dimensions", "stride", "ok"})
  BY <1>1, <1>2, LenProperties, EmptySeq
<1>4. \A p \in Planes : /\ DOMAIN planes[p] = 0 .. j.plane_bytes - 1
                        /\ \A o \in DOMAIN planes[p] :
                              o \in Nat /\ planes[p][o] = [i \in 0 .. 7 |-> left]
  BY <1>1, <1>2 DEF Memory
<1>5. ConversionTyped
  <2>1. PICK length \in Nat : length = Len(calls)
    BY <1>3
  <2>2. 1 \in 1 .. length + 1
    BY <2>1
  <2> QED BY <1>1, <1>2, <1>3, <1>4, <2>1, <2>2 DEF ConversionTyped
<1>6. GroupAtWork
  BY <1>1 DEF GroupAtWork
<1>7. PlanesWritten(left)
  BY <1>3, <1>4 DEF PlanesWritten, WrittenBy, LastWritten
<1> QED BY <1>5, <1>6, <1>7 DEF ConversionInv

(* The decoder's output lies in no plane that it may read.                 *)
LEMMA OutputElsewhere ==
  ASSUME NEW j \in Jobs, j.decodes, ValidDecode(j), NEW p \in Planes,
         NEW o \in 0 .. j.plane_bytes - 1
  PROVE  p * j.plane_bytes + o - j.output \notin Written(j)
<1>1. PICK m \in Nat, bytes \in Nat, out \in Int, stride \in Nat, w \in Int :
         /\ bytes = j.plane_bytes /\ m = p * bytes /\ out = j.output
         /\ stride = j.output_stride /\ w = m + o - out
  <2>1. /\ j.plane_bytes \in Nat /\ j.output \in Int /\ j.output_stride \in Nat
        /\ p \in Nat /\ o \in Nat
    <3>1. /\ j.plane_bytes \in Nat /\ j.output_stride \in Nat /\ j.output \in Int
      BY JobsAssumption
    <3>2. PICK bytes \in Nat : bytes = j.plane_bytes
      BY <3>1
    <3> QED BY <3>1, <3>2 DEF Planes
  <2>2. PICK m \in Nat : m = p * j.plane_bytes
    BY <2>1
  <2>3. m + o - j.output \in Int
    BY <2>1, <2>2
  <2> QED BY <2>1, <2>2, <2>3
<1>2. DisplayWidth \in Nat /\ DisplayHeight \in Nat
  BY DisplayAssumption
<1>3. stride >= DisplayWidth /\ ~Overlap(PlaneSpan(j, p), OutputSpan(j))
  BY <1>1 DEF ValidDecode
<1>4. OutputSpan(j) = [begin |-> out, end |-> out + stride * (DisplayHeight - 1) + DisplayWidth]
  BY <1>1 DEF OutputSpan, Span, LastRow
<1>5. ASSUME w \in Written(j)
      PROVE  w >= 0 /\ w < stride * (DisplayHeight - 1) + DisplayWidth
  <2>1. PICK size \in Int : size = stride * DisplayHeight
    BY <1>1, <1>2
  <2>2. w >= 0 /\ w < size /\ w % stride < DisplayWidth
    BY <1>1, <1>5, <2>1 DEF Written, Output
  <2>3. w \in Nat /\ stride \in Nat \ {0} /\ DisplayHeight # 0
    <3>1. DisplayHeight # 0
      BY <1>1, <2>1, <2>2
    <3>2. stride # 0
      BY <1>1, <1>2, <2>1, <2>2
    <3> QED BY <1>1, <2>2, <3>1, <3>2
  <2>4. PICK q \in Nat, r \in Nat : w = q * stride + r /\ r = w % stride /\ r < stride
    BY <2>3, DivMod
  <2>5. PICK last \in Nat : last = DisplayHeight - 1
    BY <1>2, <2>3
  <2>6. PICK above \in Nat, upto \in Nat : above = q * stride /\ upto = stride * last
    BY <1>1, <2>5
  <2>7. size = upto + stride
    BY <1>1, <1>2, <2>1, <2>5, <2>6
  <2>8. q <= last
    <3>1. SUFFICES ASSUME q >= last + 1 PROVE FALSE
      BY <2>4, <2>5
    <3>2. PICK more \in Nat : more = q - (last + 1)
      BY <2>4, <2>5, <3>1
    <3>3. above = upto + stride + more * stride /\ more * stride \in Nat
      <4>1. q = last + 1 + more
        BY <2>4, <2>5, <3>2
      <4> QED BY <1>1, <2>5, <2>6, <4>1
    <3> QED BY <2>2, <2>4, <2>6, <2>7, <3>3
  <2>9. above <= upto
    <3>1. PICK more \in Nat : more = last - q
      BY <2>4, <2>5, <2>8
    <3>2. upto = above + more * stride /\ more * stride \in Nat
      <4>1. last = q + more
        BY <2>4, <2>5, <3>1
      <4> QED BY <1>1, <2>4, <2>6, <4>1
    <3> QED BY <2>6, <3>2
  <2>10. w < upto + DisplayWidth
    BY <1>2, <2>2, <2>4, <2>6, <2>9
  <2> QED BY <2>2, <2>5, <2>6, <2>10
<1>6. Overlap([begin |-> p * j.plane_bytes,
               end |-> p * j.plane_bytes + j.plane_bytes], OutputSpan(j))
         => Overlap(PlaneSpan(j, p), OutputSpan(j))
  BY JobsAssumption
<1>7. ~Overlap([begin |-> m, end |-> m + bytes], OutputSpan(j))
  BY <1>1, <1>3, <1>6
<1>8. PICK far \in Int : far = out + stride * (DisplayHeight - 1) + DisplayWidth
  BY <1>1, <1>2
<1>9. ~(m < far /\ out < m + bytes)
  BY <1>4, <1>7, <1>8 DEF Overlap
<1>10. w \notin Written(j)
  <2>1. SUFFICES ASSUME w \in Written(j) PROVE FALSE
    OBVIOUS
  <2>2. PICK reach \in Int : reach = stride * (DisplayHeight - 1)
    BY <1>1, <1>2
  <2>3. w >= 0 /\ w < reach + DisplayWidth /\ far = out + reach + DisplayWidth
    BY <1>5, <1>8, <2>1, <2>2
  <2> QED BY <1>1, <1>2, <1>9, <2>2, <2>3
<1> QED BY <1>1, <1>10

(* A decoder that is not refused leaves the planes alone.                  *)
LEMMA DecodeKeepsPlanes ==
  ASSUME job \in Jobs, Decode, \A p \in Planes : DOMAIN planes[p] = 0 .. job.plane_bytes - 1,
         NEW p \in Planes
  PROVE  /\ DOMAIN planes'[p] = DOMAIN planes[p]
         /\ \A o \in DOMAIN planes[p] : planes'[p][o] = planes[p][o]
<1>1. /\ job.decodes /\ ValidDecode(job)
      /\ planes' = [q \in Planes |-> [o \in DOMAIN planes[q] |->
                      IF q * job.plane_bytes + o - job.output \in Written(job)
                      THEN [i \in 0 .. 7 |-> Other("overwritten")]
                      ELSE planes[q][o]]]
  BY DEF Decode
<1>2. \A o \in DOMAIN planes[p] : p * job.plane_bytes + o - job.output \notin Written(job)
  BY <1>1, OutputElsewhere
<1> QED BY <1>1, <1>2

LEMMA DecodeKeepsConversions ==
  ASSUME job \in Jobs, Decode, \A p \in Planes : DOMAIN planes[p] = 0 .. job.plane_bytes - 1,
         NEW left, ConversionInv(left)
  PROVE  ConversionInv(left)'
<1>1. /\ calls' = calls /\ call' = call /\ statuses' = statuses /\ stage' = stage
      /\ row' = row /\ column' = column /\ source' = source /\ target' = target
  BY DEF Decode
<1>2. \A p \in Planes : /\ DOMAIN planes'[p] = DOMAIN planes[p]
                        /\ \A o \in DOMAIN planes[p] : planes'[p][o] = planes[p][o]
  BY DecodeKeepsPlanes
<1>3. ConversionTyped'
  BY <1>1, <1>2 DEF ConversionInv, ConversionTyped
<1>4. GroupAtWork'
  BY <1>1 DEF ConversionInv, GroupAtWork, Current
<1>5. ASSUME NEW p, NEW o
      PROVE  WrittenBy(p, o)' = WrittenBy(p, o)
  BY <1>1 DEF WrittenBy, Current
<1>6. PlanesWritten(left)'
  <2>1. ASSUME NEW p \in Planes, NEW o \in DOMAIN planes[p]
        PROVE  LastWritten(planes[p][o], WrittenBy(p, o), left, p, o)'
    <3>1. LastWritten(planes[p][o], WrittenBy(p, o), left, p, o)
      BY <2>1 DEF ConversionInv, PlanesWritten
    <3>2. PICK over : over = WrittenBy(p, o)
      OBVIOUS
    <3>3. WrittenBy(p, o)' = over
      BY <1>5, <3>2
    <3>4. planes'[p][o] = planes[p][o]
      BY <1>2, <2>1
    <3> QED BY <1>1, <3>1, <3>2, <3>3, <3>4 DEF LastWritten
  <2> QED BY <1>2, <2>1 DEF PlanesWritten
<1> QED BY <1>3, <1>4, <1>6 DEF ConversionInv

(* The inductive invariant of the conversions.                             *)
THEOREM ConversionInvariance == Spec => []ConvertedInv
<1>1. Init => ConvertedInv
  <2> SUFFICES ASSUME Init PROVE ConvertedInv
    OBVIOUS
  <2>1. PICK j \in Jobs : job = j /\ ConversionInit(j.calls, Memory(j))
    BY DEF Init
  <2>2. PICK left : left = IF j.cleared THEN Zero ELSE Other("old")
    OBVIOUS
  <2>3. ConversionInv(left)
    BY <2>1, <2>2, ConversionStarts
  <2>4. \A p \in Planes : DOMAIN planes[p] = 0 .. j.plane_bytes - 1
    BY <2>1 DEF ConversionInit, Memory
  <2> QED BY <2>1, <2>2, <2>3, <2>4 DEF ConvertedInv
<1>2. ConvertedInv /\ [Next]_vars => ConvertedInv'
  <2> SUFFICES ASSUME ConvertedInv, [Next]_vars PROVE ConvertedInv'
    OBVIOUS
  <2>1. PICK left : left = IF job.cleared THEN Zero ELSE Other("old")
    OBVIOUS
  <2>2. /\ job \in Jobs /\ ConversionInv(left) /\ job' = job
        /\ \A p \in Planes : DOMAIN planes[p] = 0 .. job.plane_bytes - 1
    BY <2>1 DEF ConvertedInv, Next, vars, Decode, RefuseDecode
  <2>3. left = IF job'.cleared THEN Zero ELSE Other("old")
    BY <2>1, <2>2
  <2>4. CASE ConversionNext \/ UNCHANGED conversionVars
    <3>1. ConversionInv(left)'
      BY <2>2, <2>4, ConversionStepKeeps
    <3>2. \A p \in Planes : DOMAIN planes'[p] = DOMAIN planes[p]
      BY <2>2, <2>4, GroupKeepsWritten
         DEF ConversionNext, Refuse, Accept, conversionVars
    <3> QED BY <2>2, <2>3, <3>1, <3>2 DEF ConvertedInv
  <2>5. CASE Decode
    <3>1. ConversionInv(left)'
      BY <2>2, <2>5, DecodeKeepsConversions
    <3>2. \A p \in Planes : DOMAIN planes'[p] = DOMAIN planes[p]
      BY <2>2, <2>5, DecodeKeepsPlanes
    <3> QED BY <2>2, <2>3, <3>1, <3>2 DEF ConvertedInv
  <2> QED BY <2>4, <2>5 DEF Next, vars, RefuseDecode
<1> QED BY <1>1, <1>2, PTL DEF Spec

(* For every image, every sequence of calls and every backend: every bit   *)
(* of every pixel is in its plane, its byte and its place, the last call   *)
(* that is accepted wins, and nothing else is touched.                     *)
THEOREM PlanesAreExact == Spec => []PlanesExact
<1>1. ConvertedInv => PlanesExact
  <2> SUFFICES ASSUME ConvertedInv, stage = "validate",
                      NEW p \in Planes, NEW o \in DOMAIN planes[p]
               PROVE  LET over == {k \in DOMAIN statuses :
                                     statuses[k] = "ok" /\ Covers(calls[k], p, o)}
                          last == CHOOSE k \in over : \A k2 \in over : k2 <= k
                      IN planes[p][o] =
                            [i \in 0 .. 7 |->
                                IF over # {} THEN Wanted(calls[last], p, o, i)
                                ELSE IF job.cleared THEN Zero ELSE Other("old")]
    BY DEF PlanesExact
  <2>1. PICK left : left = IF job.cleared THEN Zero ELSE Other("old")
    OBVIOUS
  <2>2. PICK over : over = {k \in DOMAIN statuses :
                              statuses[k] = "ok" /\ Covers(calls[k], p, o)}
    OBVIOUS
  <2>3. WrittenBy(p, o) = over
    BY <2>2 DEF WrittenBy
  <2>4. LastWritten(planes[p][o], over, left, p, o)
    BY <2>1, <2>3 DEF ConvertedInv, ConversionInv, PlanesWritten
  <2>5. over \subseteq Nat
    BY <2>2, Statuses DEF ConvertedInv, ConversionInv
  <2>6. CASE over = {}
    BY <2>1, <2>2, <2>4, <2>6 DEF LastWritten
  <2>7. CASE over # {}
    <3>1. PICK k \in over :
             /\ \A m \in over : m <= k
             /\ planes[p][o] = [i \in 0 .. 7 |-> Wanted(calls[k], p, o, i)]
      BY <2>4, <2>7 DEF LastWritten
    <3>2. (CHOOSE m \in over : \A k2 \in over : k2 <= m) = k
      <4>1. ASSUME NEW m \in over, \A k2 \in over : k2 <= m PROVE m = k
        BY <2>5, <3>1, <4>1
      <4> QED BY <3>1, <4>1
    <3> QED BY <2>2, <2>7, <3>1, <3>2
  <2> QED BY <2>6, <2>7
<1> QED BY <1>1, ConversionInvariance, PTL

-----------------------------------------------------------------------------
(***************************************************************************)
(* The two ways to the display: what the decoder makes of the planes, by   *)
(* what PlanesExact says of them, and what the compositor has drawn of the *)
(* same views.                                                             *)
(***************************************************************************)
(* What a view shows of a playfield at a place of the display.             *)
ShownPixel(s, playfield, x, y) ==
    LET view == ViewOf(s, playfield)
    IN IF Shows(view, view.at, x, y) THEN Seen(view, view.at, x, y) ELSE Black

(* A pixel (x, y) and an image of w by h pixels at (left, top), in rows of *)
(* s bytes: the byte o holds the pixel, and the image begins at base.      *)
Against(s, left, top, w, h, x, y, base, o) ==
    /\ s \in Nat \ {0} /\ left \in Nat /\ top \in Nat /\ w \in Nat /\ h \in Nat
    /\ x \in Nat /\ y \in Nat /\ left % 8 = 0 /\ w % 8 = 0
    /\ left + w <= 8 * s /\ x < 8 * s
    /\ base = top * s + left \div 8 /\ o = y * s + x \div 8

(* The byte is one of the image's if the pixel is in it.                   *)
Within(s, left, top, w, h, x, y, base, o) ==
    /\ (/\ o >= base /\ (o - base) \div s < h
        /\ (o - base) % s < w \div 8)
          <=> x - left \in 0 .. w - 1 /\ y - top \in 0 .. h - 1
    /\ x - left \in 0 .. w - 1 /\ y - top \in 0 .. h - 1 =>
          /\ (o - base) \div s = y - top
          /\ 8 * ((o - base) % s) + (x % 8) = x - left

(* Whether a byte is one of the image, and of which pixels, by division.   *)
LEMMA ByteInImage ==
  ASSUME NEW s, NEW left, NEW top, NEW w, NEW h, NEW x, NEW y, NEW base, NEW o,
         Against(s, left, top, w, h, x, y, base, o)
  PROVE  Within(s, left, top, w, h, x, y, base, o)
<1>0. /\ s \in Nat \ {0} /\ left \in Nat /\ top \in Nat /\ w \in Nat /\ h \in Nat
      /\ x \in Nat /\ y \in Nat /\ left % 8 = 0 /\ w % 8 = 0
      /\ left + w <= 8 * s /\ x < 8 * s
      /\ base = top * s + left \div 8 /\ o = y * s + x \div 8
  BY DEF Against
<1>1. PICK cl \in Nat, cw \in Nat, cx \in Nat, r \in 0 .. 7 :
         /\ cl = left \div 8 /\ cw = w \div 8 /\ cx = x \div 8 /\ r = x % 8
         /\ left = 8 * cl /\ w = 8 * cw /\ x = 8 * cx + r
  <2>1. \A n \in Nat : n \div 8 \in Nat /\ n % 8 \in 0 .. 7 /\ n = 8 * (n \div 8) + (n % 8)
    OBVIOUS
  <2>2. /\ left \div 8 \in Nat /\ w \div 8 \in Nat /\ x \div 8 \in Nat /\ x % 8 \in 0 .. 7
        /\ x = 8 * (x \div 8) + (x % 8)
    BY <1>0, <2>1
  <2>3. left = 8 * (left \div 8) /\ w = 8 * (w \div 8)
    BY <1>0, <2>1
  <2> QED BY <2>2, <2>3
<1>2. cx < s /\ cl + cw <= s
  BY <1>0, <1>1
<1>3. x - left \in 0 .. w - 1 <=> cl <= cx /\ cx < cl + cw
  BY <1>0, <1>1
<1>4. PICK above \in Nat, below \in Nat : above = y * s /\ below = top * s
  BY <1>0
<1>5. o = above + cx /\ base = below + cl
  BY <1>0, <1>1, <1>4
<1>6. CASE cl <= cx /\ top <= y
  <2>1. PICK q \in Nat, d \in Nat : q = y - top /\ d = cx - cl /\ d < s
    BY <1>0, <1>2, <1>6
  <2>2. above = below + q * s
    <3>1. y = top + q
      BY <1>0, <2>1
    <3> QED BY <1>0, <1>4, <2>1, <3>1
  <2>3. o >= base /\ o - base = q * s + d
    <3>1. q * s \in Nat
      BY <1>0, <2>1
    <3> QED BY <1>0, <1>5, <2>1, <2>2, <3>1
  <2>4. (q * s + d) \div s = q /\ (q * s + d) % s = d
    BY <1>0, <2>1, Quotient
  <2>5. q < h <=> y - top \in 0 .. h - 1
    BY <1>0, <2>1
  <2>6. d < cw <=> cl <= cx /\ cx < cl + cw
    BY <1>0, <1>6, <2>1
  <2>7. 8 * d + r = x - left
    BY <1>0, <1>1, <2>1
  <2>8. /\ (o - base) \div s = q /\ (o - base) % s = d
        /\ w \div 8 = cw /\ x % 8 = r
    BY <1>1, <2>3, <2>4
  <2>9. /\ (q < h /\ d < cw) <=> (x - left \in 0 .. w - 1 /\ y - top \in 0 .. h - 1)
        /\ q = y - top
    BY <1>3, <2>1, <2>5, <2>6
  <2> QED BY <2>3, <2>7, <2>8, <2>9 DEF Within
<1>7. CASE cl <= cx /\ ~(top <= y)
  <2>1. PICK q \in Nat : q = top - y - 1
    BY <1>0, <1>7
  <2>2. below = above + q * s + s /\ q * s \in Nat
    <3>1. top = y + q + 1
      BY <1>0, <2>1
    <3> QED BY <1>0, <1>4, <2>1, <3>1
  <2>3. ~(o >= base)
    BY <1>0, <1>2, <1>5, <1>7, <2>2
  <2>4. ~(y - top \in 0 .. h - 1)
    BY <1>0, <1>7
  <2> QED BY <2>3, <2>4 DEF Within
<1>8. CASE ~(cl <= cx) /\ top < y
  <2>1. PICK q \in Nat, d \in Nat : q = y - top - 1 /\ d = s - (cl - cx) /\ d < s
    BY <1>0, <1>2, <1>8
  <2>2. above = below + q * s + s
    <3>1. y = top + q + 1
      BY <1>0, <2>1
    <3> QED BY <1>0, <1>4, <2>1, <3>1
  <2>3. o - base = q * s + d
    <3>1. q * s \in Nat
      BY <1>0, <2>1
    <3> QED BY <1>0, <1>5, <2>1, <2>2, <3>1
  <2>4. (q * s + d) % s = d
    BY <1>0, <2>1, Quotient
  <2>5. ~(d < cw)
    BY <1>0, <1>2, <2>1
  <2> QED BY <1>1, <1>3, <1>8, <2>3, <2>4, <2>5 DEF Within
<1>9. CASE ~(cl <= cx) /\ ~(top < y)
  <2>1. PICK q \in Nat : q = top - y
    BY <1>0, <1>9
  <2>2. below = above + q * s /\ q * s \in Nat
    <3>1. top = y + q
      BY <1>0, <2>1
    <3> QED BY <1>0, <1>4, <2>1, <3>1
  <2>3. ~(o >= base)
    BY <1>0, <1>5, <1>9, <2>2
  <2> QED BY <1>3, <1>9, <2>3 DEF Within
<1> QED BY <1>0, <1>6, <1>7, <1>8, <1>9

(* The address of a pixel of the display lies in the rows read of a plane. *)
LEMMA ByteInRows ==
  ASSUME NEW s \in Nat, NEW x \in Nat, NEW y \in Nat, x < DisplayWidth,
         y < DisplayHeight, DisplayWidth % 8 = 0, DisplayWidth \div 8 <= s,
         NEW size \in Nat, s * (DisplayHeight - 1) + DisplayWidth \div 8 <= size
  PROVE  /\ y * s + x \div 8 \in 0 .. size - 1
         /\ x < 8 * s /\ DisplayWidth <= 8 * s
<1>1. PICK width \in Nat, height \in Nat : width = DisplayWidth /\ height = DisplayHeight
  BY DisplayAssumption
<1>2. PICK cw \in Nat, cx \in Nat : /\ cw = width \div 8 /\ cx = x \div 8 /\ width = 8 * cw
                                   /\ cx < cw /\ x <= 8 * cx + 7
  <2>1. /\ width \div 8 \in Nat /\ x \div 8 \in Nat /\ width = 8 * (width \div 8)
        /\ x \div 8 < width \div 8 /\ x <= 8 * (x \div 8) + 7
    BY <1>1
  <2> QED BY <2>1
<1>3. PICK more \in Nat : more = height - 1 - y
  BY <1>1
<1>4. PICK above \in Nat, rest \in Nat : above = y * s /\ rest = more * s
  BY <1>3
<1>5. s * (height - 1) = above + rest
  <2>1. height - 1 = y + more
    BY <1>1, <1>3
  <2> QED BY <1>1, <1>3, <1>4, <2>1
<1>6. above + rest + cw <= size
  BY <1>1, <1>2, <1>5
<1> QED BY <1>1, <1>2, <1>4, <1>6

(* The bit of the planes that is the bit b of the pixel (x, y) of a        *)
(* playfield, when all calls have been made.                               *)
LEMMA BitOfImage ==
  ASSUME ConvertedInv, Converted, calls = job.calls, SameImage(job),
         job.plane_stride >= RowBytes,
         NEW f \in {"front", "back"}, NEW b \in LogicalBits,
         NEW x \in Nat, NEW y \in Nat, x < DisplayWidth, y < DisplayHeight
  PROVE  planes[PlaneOf(f, b)][y * job.plane_stride + x \div 8][7 - (x % 8)]
            = ShownPixel(job.scene, f, x, y)[b]
<1>1. PICK s \in Nat : s = job.plane_stride
  BY JobsAssumption DEF ConvertedInv
<1>2. PICK p \in Planes : p = PlaneOf(f, b) /\ p \div 2 = b /\ (p % 2 = 0 <=> f = "front")
  BY PlanesNumbered
<1>3. PICK o : o = y * s + x \div 8
  OBVIOUS
<1>4. /\ DisplayWidth % 8 = 0 /\ DisplayWidth \div 8 <= s /\ job.plane_bytes \in Nat
      /\ s * (DisplayHeight - 1) + DisplayWidth \div 8 <= job.plane_bytes
      /\ job.cleared /\ job \in Jobs /\ DisplayWidth \in Nat
  <2>1. job.plane_bytes \in Nat /\ job \in Jobs /\ DisplayWidth \in Nat
    BY JobsAssumption, DisplayAssumption DEF ConvertedInv
  <2>2. DisplayWidth \div 8 <= s
    BY <1>1, <2>1 DEF RowBytes
  <2> QED BY <1>1, <2>1, <2>2 DEF SameImage, RowBytes, LastRow
<1>5. o \in 0 .. job.plane_bytes - 1 /\ x < 8 * s /\ DisplayWidth <= 8 * s
  BY <1>1, <1>3, <1>4, ByteInRows
<1>6. o \in DOMAIN planes[p] /\ s # 0 /\ o \in Nat
  <2>1. PICK size \in Nat : size = job.plane_bytes
    BY <1>4
  <2> QED BY <1>5, <2>1 DEF ConvertedInv
<1>7. stage = "validate" /\ DOMAIN statuses = 1 .. Len(calls)
      /\ \A k \in DOMAIN statuses : statuses[k] = Validate(calls[k])
      /\ calls \in Seq(ConversionCalls) /\ DOMAIN calls = 1 .. Len(calls)
  <2>1. ConversionTyped /\ GroupAtWork
    BY DEF ConvertedInv, ConversionInv
  <2>2. PICK length \in Nat : length = Len(calls) /\ DOMAIN calls = 1 .. Len(calls)
    BY <2>1, Statuses
  <2>3. call > length /\ call \in 1 .. length + 1
    BY <2>1, <2>2 DEF Converted, ConversionTyped
  <2>4. stage = "validate"
    <3>1. ~(call <= length)
      BY <2>3
    <3> QED BY <2>1, <2>2, <3>1 DEF GroupAtWork, ConversionTyped
  <2>5. DOMAIN statuses = 1 .. call - 1
    BY <2>1, <2>4, Statuses
  <2>6. call - 1 = length
    BY <2>3
  <2> QED BY <2>1, <2>2, <2>4, <2>5, <2>6 DEF ConversionTyped
<1>8. PICK over : /\ over = {k \in DOMAIN statuses :
                                statuses[k] = "ok" /\ Covers(calls[k], p, o)}
                  /\ LastWritten(planes[p][o], over, Zero, p, o)
  <2>1. WrittenBy(p, o) = {k \in DOMAIN statuses :
                             statuses[k] = "ok" /\ Covers(calls[k], p, o)}
    BY <1>7 DEF WrittenBy
  <2>2. LastWritten(planes[p][o], WrittenBy(p, o), Zero, p, o)
    BY <1>4, <1>6 DEF ConvertedInv, ConversionInv, PlanesWritten
  <2> QED BY <2>1, <2>2
<1>9. over \subseteq CallsFor(job, f)
  <2>1. ASSUME NEW k \in over PROVE k \in CallsFor(job, f)
    <3>1. k \in DOMAIN calls /\ Covers(calls[k], p, o) /\ calls[k] \in ConversionCalls
      BY <1>7, <1>8, <2>1, ElementOfSeq
    <3>2. PICK l \in DOMAIN calls[k].layers, d \in LogicalBits :
             p = PlaneOf(calls[k].layers[l].playfield, d)
      BY <3>1 DEF Covers
    <3>3. calls[k].layers[l] \in Layers
      <4>1. calls[k].layers \in Seq(Layers)
        BY <3>1 DEF ConversionCalls
      <4> QED BY <3>2, <4>1, LenProperties, ElementOfSeq
    <3>4. PICK g \in {"front", "back"} : g = calls[k].layers[l].playfield
      BY <3>3 DEF Layers
    <3>5. p % 2 = 0 <=> g = "front"
      BY <3>2, <3>4, PlanesNumbered
    <3>6. g = f
      BY <1>2, <3>5
    <3> QED BY <3>1, <3>2, <3>4, <3>6 DEF CallsFor
  <2> QED BY <2>1
<1>10. PICK view : view = ViewOf(job.scene, f)
  OBVIOUS
<1>11. x % 8 \in 0 .. 7 /\ 7 - (x % 8) \in 0 .. 7 /\ 7 - (7 - (x % 8)) = x % 8
  OBVIOUS
<1>12. ASSUME over = {}, ~Shows(view, view.at, x, y)
       PROVE  planes[p][o][7 - (x % 8)] = ShownPixel(job.scene, f, x, y)[b]
  <2>1. planes[p][o] = [i \in 0 .. 7 |-> Zero]
    BY <1>8, <1>12 DEF LastWritten
  <2>2. ShownPixel(job.scene, f, x, y) = Black
    BY <1>10, <1>12 DEF ShownPixel
  <2> QED BY <1>11, <2>1, <2>2 DEF Black, Zero, LogicalBits
<1>13. CASE ~view.shown
  <2>1. CallsFor(job, f) = {}
    BY <1>10, <1>13 DEF SameImage
  <2>2. over = {} /\ ~Shows(view, view.at, x, y)
    BY <1>9, <1>13, <2>1 DEF Shows
  <2> QED BY <1>1, <1>2, <1>3, <1>12, <2>2
<1>14. CASE view.shown
  <2>1. PICK k \in CallsFor(job, f) :
           /\ CallsFor(job, f) = {k}
           /\ ShowsWhole(view, job.calls[k], f, job.plane_stride)
    BY <1>10, <1>14 DEF SameImage
  <2>2. PICK c : c = calls[k]
    OBVIOUS
  <2>3. k \in DOMAIN calls /\ \E l \in DOMAIN c.layers : c.layers[l].playfield = f
    BY <2>1, <2>2 DEF CallsFor
  <2>4. c \in ConversionCalls
    BY <1>7, <2>2, <2>3, ElementOfSeq
  <2>5. /\ view.surface.name = f /\ view.from = <<0, 0>>
        /\ view.size = <<c.width, c.height>> /\ view.at \in Nat \X Nat
        /\ view.at[1] % 8 = 0 /\ view.at[1] + c.width <= DisplayWidth
        /\ Validate(c) = "ok" /\ c.plane_stride = s
        /\ c.base = view.at[2] * s + view.at[1] \div 8
    BY <1>1, <2>1, <2>2 DEF ShowsWhole
  <2>6. Accepted(c)
    BY <2>4, <2>5 DEF Accepted
  <2>7. PICK left \in Nat, top \in Nat, w \in Nat, h \in Nat :
           /\ left = view.at[1] /\ top = view.at[2] /\ w = c.width /\ h = c.height
    BY <2>5, <2>6, AcceptedParts
  <2>8. w % 8 = 0
    <3>1. w % GroupPixels(c) = 0 /\ GroupPixels(c) \in {8, 32}
      BY <2>6, <2>7, AcceptedParts
    <3>2. CASE GroupPixels(c) = 8
      BY <3>1, <3>2
    <3>3. CASE GroupPixels(c) = 32
      <4>1. w % 32 = 0
        BY <3>1, <3>3
      <4> QED BY <4>1
    <3> QED BY <3>1, <3>2, <3>3
  <2>9. left % 8 = 0 /\ left + w <= 8 * s
    <3>1. left + w <= DisplayWidth
      BY <2>5, <2>7
    <3> QED BY <1>4, <1>5, <2>5, <2>7, <3>1
  <2>10. PICK base : base = c.base /\ base = top * s + left \div 8
    BY <2>5, <2>7
  <2>11. /\ (/\ o >= base /\ (o - base) \div s < h
             /\ (o - base) % s < w \div 8)
               <=> x - left \in 0 .. w - 1 /\ y - top \in 0 .. h - 1
         /\ x - left \in 0 .. w - 1 /\ y - top \in 0 .. h - 1 =>
               /\ (o - base) \div s = y - top
               /\ 8 * ((o - base) % s) + (x % 8) = x - left
    <3>1. s \in Nat \ {0}
      BY <1>6
    <3>2. Against(s, left, top, w, h, x, y, base, o)
      BY <1>3, <1>5, <2>8, <2>9, <2>10, <3>1 DEF Against
    <3>3. Within(s, left, top, w, h, x, y, base, o)
      BY <3>2, ByteInImage
    <3> QED BY <3>3 DEF Within
  <2>12. Shows(view, view.at, x, y)
            <=> x - left \in 0 .. w - 1 /\ y - top \in 0 .. h - 1
    <3>1. view.size[1] = w /\ view.size[2] = h
      BY <2>5, <2>7
    <3> QED BY <1>14, <2>7, <3>1 DEF Shows
  <2>13. Covers(c, p, o) <=> Shows(view, view.at, x, y)
    <3>1. \E l \in DOMAIN c.layers, d \in LogicalBits :
             p = PlaneOf(c.layers[l].playfield, d)
      BY <1>2, <2>3
    <3> QED BY <2>5, <2>7, <2>10, <2>11, <2>12, <3>1 DEF Covers
  <2>14. statuses[k] = "ok" /\ k \in DOMAIN statuses
    BY <1>7, <2>2, <2>3, <2>5
  <2>15. CASE ~Shows(view, view.at, x, y)
    <3>1. over = {}
      BY <1>8, <1>9, <2>1, <2>2, <2>13, <2>15
    <3> QED BY <1>1, <1>2, <1>3, <1>12, <2>15, <3>1
  <2>16. CASE Shows(view, view.at, x, y)
    <3>1. over = {k}
      BY <1>8, <1>9, <2>1, <2>2, <2>13, <2>14, <2>16
    <3>2. planes[p][o] = [i \in 0 .. 7 |-> Wanted(c, p, o, i)]
      BY <1>8, <2>2, <3>1 DEF LastWritten
    <3>3. PICK rem \in Nat : rem = (o - base) % s /\ 8 * rem + (x % 8) = x - left
                             /\ (o - base) \div s = y - top
      <4>1. o - base \in Nat /\ s \in Nat \ {0}
        <5>1. o >= base /\ base \in Nat
          BY <2>6, <2>10, <2>11, <2>12, <2>16, AcceptedParts
        <5> QED BY <1>6, <5>1
      <4>2. (o - base) % s \in Nat
        BY <4>1, DivMod
      <4> QED BY <2>11, <2>12, <2>16, <4>2
    <3>4. Wanted(c, p, o, 7 - (x % 8)) = {<<f, x - left, y - top, b>>}
      <4>1. 8 * rem + 7 - (7 - (x % 8)) = x - left
        <5>1. PICK r \in 0 .. 7 : r = x % 8
          BY <1>11
        <5>2. 8 * rem + 7 - (7 - r) = 8 * rem + r
          BY <3>3
        <5> QED BY <3>3, <5>1, <5>2
      <4>2. (IF p % 2 = 0 THEN "front" ELSE "back") = f
        BY <1>2
      <4>3. Wanted(c, p, o, 7 - (x % 8))
               = Pixel(f, 8 * rem + 7 - (7 - (x % 8)), y - top)[b]
        BY <1>2, <2>5, <2>10, <3>3, <4>2 DEF Wanted
      <4> QED BY <4>1, <4>3 DEF Pixel
    <3>5. ShownPixel(job.scene, f, x, y)[b] = {<<f, x - left, y - top, b>>}
      <4>1. ShownPixel(job.scene, f, x, y) = Seen(view, view.at, x, y)
        BY <1>10, <2>16 DEF ShownPixel
      <4>2. view.from[1] + x - view.at[1] = x - left /\ view.from[2] + y - view.at[2] = y - top
        BY <2>5, <2>7
      <4> QED BY <2>5, <4>1, <4>2 DEF Seen, LogicalBits
    <3> QED BY <1>1, <1>2, <1>3, <1>11, <3>2, <3>4, <3>5
  <2> QED BY <2>15, <2>16
<1> QED BY <1>13, <1>14

(* What the decoder makes of a pixel of a paired job.                      *)
Decoded(s, x, y) ==
    <<Overlay(ShownPixel(s, "front", x, y)), Opaque(ShownPixel(s, "back", x, y))>>

(* The inductive invariant of the two ways to the display: the decoder's   *)
(* output, byte by byte, against the scene.                                *)
DecodedInv ==
    /\ job \in Jobs /\ calls = job.calls /\ scene = job.scene
    /\ DOMAIN decoded = Output(job)
    /\ decoding # "decoded" => \A o \in DOMAIN decoded : decoded[o] = Kept
    /\ decoding = "decoded" =>
          /\ step = "composed"
          /\ \A o \in DOMAIN decoded :
                IF o % job.output_stride < DisplayWidth
                THEN job.paired =>
                        decoded[o] = Decoded(scene, o % job.output_stride,
                                             o \div job.output_stride)
                ELSE decoded[o] = Kept

(* A byte of the output by its row and its column.                         *)
LEMMA OutputPlace ==
  ASSUME NEW stride \in Nat, NEW o \in 0 .. stride * DisplayHeight - 1
  PROVE  /\ stride # 0 /\ o % stride \in Nat /\ o \div stride \in Nat
         /\ o \div stride < DisplayHeight
         /\ o = (o \div stride) * stride + (o % stride)
<1>1. PICK height \in Nat, size \in Nat : height = DisplayHeight /\ size = stride * height
  BY DisplayAssumption
<1>2. o \in Nat /\ o < size
  BY <1>1
<1>3. stride # 0
  BY <1>1, <1>2
<1>4. PICK q \in Nat, r \in Nat : /\ q = o \div stride /\ r = o % stride
                                 /\ r < stride /\ o = q * stride + r
  BY <1>2, <1>3, DivMod
<1>5. q < height
  <2>1. SUFFICES ASSUME q >= height PROVE FALSE
    BY <1>1, <1>4
  <2>2. PICK more \in Nat : more = q - height
    BY <1>1, <1>4, <2>1
  <2>3. q * stride = size + more * stride /\ more * stride \in Nat
    <3>1. q = height + more
      BY <1>1, <1>4, <2>2
    <3> QED BY <1>1, <2>2, <3>1
  <2> QED BY <1>1, <1>2, <1>4, <2>3
<1> QED BY <1>1, <1>3, <1>4, <1>5

(* What the decoder writes of a display that is shown in the planes.       *)
LEMMA DecodeMakes ==
  ASSUME DecodedInv, ConvertedInv, Decode
  PROVE  DecodedInv'
<1>1. /\ Converted /\ step = "composed" /\ ValidDecode(job)
      /\ decoding = "waiting" /\ decoding' = "decoded"
      /\ decoded' = [o \in DOMAIN decoded |->
                       IF o \in Written(job)
                       THEN DecodedPixel(o % job.output_stride,
                                         o \div job.output_stride)
                       ELSE decoded[o]]
      /\ job' = job /\ calls' = calls /\ scene' = scene /\ step' = step
  BY DEF Decode, frameVars
<1>2. /\ job \in Jobs /\ calls = job.calls /\ scene = job.scene
      /\ DOMAIN decoded = Output(job) /\ \A o \in DOMAIN decoded : decoded[o] = Kept
  BY <1>1 DEF DecodedInv
<1>3. job.plane_stride >= RowBytes /\ job.output_stride \in Nat
  BY <1>1, <1>2, JobsAssumption DEF ValidDecode
<1>4. ASSUME NEW o \in DOMAIN decoded
      PROVE  IF o % job.output_stride < DisplayWidth
             THEN job.paired =>
                     decoded'[o] = Decoded(scene, o % job.output_stride,
                                           o \div job.output_stride)
             ELSE decoded'[o] = Kept
  <2>1. PICK x \in Nat, y \in Nat :
           /\ x = o % job.output_stride /\ y = o \div job.output_stride
           /\ y < DisplayHeight
    BY <1>2, <1>3, OutputPlace DEF Output
  <2>2. CASE ~(x < DisplayWidth)
    BY <1>1, <1>2, <2>1, <2>2 DEF Written
  <2>3. CASE x < DisplayWidth /\ job.paired
    <3>1. decoded'[o] = DecodedPixel(x, y)
      BY <1>1, <1>2, <2>1, <2>3 DEF Written
    <3>2. SameImage(job)
      BY <1>2, <2>3, JobsAssumption
    <3>3. ASSUME NEW f \in {"front", "back"}
          PROVE  [b \in LogicalBits |->
                    planes[PlaneOf(f, b)][y * job.plane_stride + x \div 8][7 - (x % 8)]]
                    = ShownPixel(job.scene, f, x, y)
      <4>1. \A b \in LogicalBits :
               planes[PlaneOf(f, b)][y * job.plane_stride + x \div 8][7 - (x % 8)]
                  = ShownPixel(job.scene, f, x, y)[b]
        BY <1>1, <1>2, <1>3, <2>1, <2>3, <3>2, BitOfImage, SMTT(30)
      <4>2. ShownPixel(job.scene, f, x, y)
               = [b \in LogicalBits |-> ShownPixel(job.scene, f, x, y)[b]]
        BY DEF ShownPixel, Seen, Black, LogicalBits
      <4> QED BY <4>1, <4>2
    <3>4. DecodedPixel(x, y) = Decoded(scene, x, y)
      <4>1. /\ [b \in LogicalBits |->
                  planes[PlaneOf("front", b)][y * job.plane_stride + x \div 8][7 - (x % 8)]]
                  = ShownPixel(job.scene, "front", x, y)
            /\ [b \in LogicalBits |->
                  planes[PlaneOf("back", b)][y * job.plane_stride + x \div 8][7 - (x % 8)]]
                  = ShownPixel(job.scene, "back", x, y)
        BY <3>3
      <4> QED BY <1>2, <4>1 DEF DecodedPixel, Decoded
    <3> QED BY <2>1, <2>3, <3>1, <3>4
  <2>4. CASE x < DisplayWidth /\ ~job.paired
    BY <2>1, <2>4
  <2> QED BY <2>2, <2>3, <2>4
<1>5. DOMAIN decoded' = DOMAIN decoded
  BY <1>1
<1> QED BY <1>1, <1>2, <1>4, <1>5 DEF DecodedInv

(* The decoder's output is made once, of the planes as they were then.     *)
LEMMA OutputStays ==
  ASSUME DecodedInv, FrameInv, [Next]_vars, ~Decode
  PROVE  DecodedInv'
<1>1. calls' = calls /\ job' = job /\ decoded' = decoded
      /\ (decoding' = decoding \/ (decoding' = "refused" /\ decoding = "waiting"))
  BY DEF Next, vars, RefuseDecode, conversionVars, ConversionNext, Refuse, Accept,
         ConvertGroup
<1>2. scene' = scene /\ (step = "composed" => step' = "composed")
  BY DEF Next, vars, RefuseDecode, frameVars, FrameNext, RefuseScene, Clear, DrawPlanar,
         DrawPixel, DrawView, DrawObject, NextPriority, EndFrame
<1> QED BY <1>1, <1>2 DEF DecodedInv

(* The output stays what the decoder made of the scene.                    *)
THEOREM DecodedInvariance == Spec => []DecodedInv
<1>1. Init => DecodedInv
  BY DEF Init, DecodedInv, FrameInit, ConversionInit, Output
<1>2. DecodedInv /\ FrameInv /\ ConvertedInv /\ [Next]_vars => DecodedInv'
  BY DecodeMakes, OutputStays
<1> QED BY <1>1, <1>2, Invariance, ConversionInvariance, PTL DEF Spec

(* What is visible of one entry, and of two.                               *)
VisibleAfter(e, before) ==
    IF e.overlay /\ e.pixel = Black THEN before ELSE Append(before, e)

(* The function Visible counts with, for one entry and for two.            *)
LEMMA VisibleOfOne ==
  ASSUME NEW e
  PROVE  Visible(<<e>>) = VisibleAfter(e, <<>>)
<1> DEFINE entries == <<e>>
           P(f) == f = [k \in 0 .. Len(entries) |->
                          IF k = 0 THEN <<>>
                          ELSE IF entries[k].overlay /\ entries[k].pixel = Black
                          THEN f[k - 1]
                          ELSE Append(f[k - 1], entries[k])]
<1>0. Len(entries) = 1 /\ entries[1] = e
  OBVIOUS
<1> HIDE DEF entries
<1>1. \E f : P(f)
  <2>1. PICK s1 : s1 = VisibleAfter(e, <<>>)
    OBVIOUS
  <2> DEFINE f == [k \in 0 .. Len(entries) |-> IF k = 0 THEN <<>> ELSE s1]
  <2>2. f[0] = <<>> /\ f[1] = s1
    BY <1>0
  <2>3. f = [k \in 0 .. Len(entries) |-> f[k]]
    OBVIOUS
  <2> HIDE DEF f
  <2>4. ASSUME NEW k \in 0 .. Len(entries)
        PROVE  f[k] = IF k = 0 THEN <<>>
                      ELSE IF entries[k].overlay /\ entries[k].pixel = Black
                      THEN f[k - 1]
                      ELSE Append(f[k - 1], entries[k])
    <3>1. k = 0 \/ (k = 1 /\ k - 1 = 0)
      BY <1>0
    <3> QED BY <1>0, <2>1, <2>2, <3>1 DEF VisibleAfter
  <2>5. P(f)
    BY <2>3, <2>4
  <2> QED BY <2>5
<1>2. PICK f : f = CHOOSE g : P(g)
  OBVIOUS
<1>3. P(f)
  BY <1>1, <1>2
<1>4. Visible(entries) = f[1]
  BY <1>0, <1>2 DEF Visible
<1>5. f[0] = <<>> /\ f[1] = VisibleAfter(e, f[0])
  <2>1. \A k \in 0 .. 1 :
           f[k] = IF k = 0 THEN <<>>
                  ELSE IF entries[k].overlay /\ entries[k].pixel = Black
                  THEN f[k - 1]
                  ELSE Append(f[k - 1], entries[k])
    BY <1>0, <1>3
  <2> HIDE DEF P
  <2>2. f[1] = IF e.overlay /\ e.pixel = Black THEN f[0] ELSE Append(f[0], e)
    BY <1>0, <2>1
  <2>3. f[0] = <<>>
    BY <2>1
  <2> QED BY <2>2, <2>3 DEF VisibleAfter
<1> QED BY <1>4, <1>5 DEF entries

LEMMA VisibleOfTwo ==
  ASSUME NEW d, NEW e
  PROVE  Visible(<<d, e>>) = VisibleAfter(e, VisibleAfter(d, <<>>))
<1> DEFINE entries == <<d, e>>
           P(f) == f = [k \in 0 .. Len(entries) |->
                          IF k = 0 THEN <<>>
                          ELSE IF entries[k].overlay /\ entries[k].pixel = Black
                          THEN f[k - 1]
                          ELSE Append(f[k - 1], entries[k])]
<1>0. Len(entries) = 2 /\ entries[1] = d /\ entries[2] = e
  OBVIOUS
<1> HIDE DEF entries
<1>1. \E f : P(f)
  <2>1. PICK s1 : s1 = VisibleAfter(d, <<>>)
    OBVIOUS
  <2>2. PICK s2 : s2 = VisibleAfter(e, s1)
    OBVIOUS
  <2> DEFINE f == [k \in 0 .. Len(entries) |->
                     IF k = 0 THEN <<>> ELSE IF k = 1 THEN s1 ELSE s2]
  <2>3. f[0] = <<>> /\ f[1] = s1 /\ f[2] = s2
    BY <1>0
  <2>4. f = [k \in 0 .. Len(entries) |-> f[k]]
    OBVIOUS
  <2> HIDE DEF f
  <2>5. ASSUME NEW k \in 0 .. Len(entries)
        PROVE  f[k] = IF k = 0 THEN <<>>
                      ELSE IF entries[k].overlay /\ entries[k].pixel = Black
                      THEN f[k - 1]
                      ELSE Append(f[k - 1], entries[k])
    <3>1. k = 0 \/ (k = 1 /\ k - 1 = 0) \/ (k = 2 /\ k - 1 = 1)
      BY <1>0
    <3> QED BY <1>0, <2>1, <2>2, <2>3, <3>1 DEF VisibleAfter
  <2>6. P(f)
    BY <2>4, <2>5
  <2> QED BY <2>6
<1>2. PICK f : f = CHOOSE g : P(g)
  OBVIOUS
<1>3. P(f)
  BY <1>1, <1>2
<1>4. Visible(entries) = f[2]
  BY <1>0, <1>2 DEF Visible
<1>5. f[0] = <<>> /\ f[1] = VisibleAfter(d, f[0]) /\ f[2] = VisibleAfter(e, f[1])
  <2>1. \A k \in 0 .. 2 :
           f[k] = IF k = 0 THEN <<>>
                  ELSE IF entries[k].overlay /\ entries[k].pixel = Black
                  THEN f[k - 1]
                  ELSE Append(f[k - 1], entries[k])
    BY <1>0, <1>3
  <2> HIDE DEF P
  <2>2. f[1] = IF d.overlay /\ d.pixel = Black THEN f[0] ELSE Append(f[0], d)
    BY <1>0, <2>1
  <2>3. f[2] = IF e.overlay /\ e.pixel = Black THEN f[1] ELSE Append(f[1], e)
    BY <1>0, <2>1
  <2>4. f[0] = <<>>
    BY <2>1
  <2> QED BY <2>2, <2>3, <2>4 DEF VisibleAfter
<1> QED BY <1>4, <1>5 DEF entries

(* A transparent pixel over an opaque one shows that one alone.            *)
LEMMA SameLook ==
  ASSUME NEW s \in Scenes, NEW x \in Int, NEW y \in Int
  PROVE  Visible(Decoded(s, x, y)) = Visible(Under(s, x, y))
<1>1. PICK back : back = Opaque(ShownPixel(s, "back", x, y))
  OBVIOUS
<1>2. Back(s, x, y) = <<back>>
  BY <1>1 DEF Back, ShownPixel, ViewOf
<1>3. PICK front : front = Overlay(ShownPixel(s, "front", x, y))
  OBVIOUS
<1>4. Decoded(s, x, y) = <<front, back>>
  BY <1>1, <1>3 DEF Decoded
<1>5. CASE Shows(s.pixel, s.pixel.at, x, y)
  <2>1. front = Overlay(Seen(s.pixel, s.pixel.at, x, y))
    BY <1>3, <1>5 DEF ShownPixel, ViewOf
  <2>2. Under(s, x, y) = <<front>> \o <<back>>
    BY <1>2, <1>5, <2>1, UnderFromBack
  <2>3. <<front>> \o <<back>> = <<front, back>>
    <3>1. front \in Entries /\ back \in Entries
      BY <1>1, <2>1, SceneParts, SeenIsPixel, ConstantsArePixels DEF ShownPixel, ViewOf
    <3>2. /\ <<front>> \in Seq(Entries) /\ <<back>> \in Seq(Entries)
          /\ Len(<<front>>) = 1 /\ Len(<<back>>) = 1
      BY <3>1
    <3>3. PICK one, other : one = <<front>> /\ other = <<back>>
      OBVIOUS
    <3>4. /\ one \in Seq(Entries) /\ other \in Seq(Entries)
          /\ Len(one) = 1 /\ Len(other) = 1 /\ one[1] = front /\ other[1] = back
      BY <3>2, <3>3
    <3>5. PICK both : both = one \o other
      OBVIOUS
    <3>6. both \in Seq(Entries) /\ Len(both) = 2 /\ both[1] = front /\ both[2] = back
      BY <3>4, <3>5, ConcatProperties
    <3>7. <<front, back>> \in Seq(Entries) /\ Len(<<front, back>>) = 2
      BY <3>1
    <3>8. \A k \in 1 .. 2 : both[k] = <<front, back>>[k]
      BY <3>6
    <3>9. both = <<front, back>>
      BY <3>6, <3>7, <3>8, SeqEqual
    <3> QED BY <3>3, <3>9, <3>5
  <2> QED BY <1>4, <2>2, <2>3
<1>6. CASE ~Shows(s.pixel, s.pixel.at, x, y)
  <2>1. front = Overlay(Black)
    BY <1>3, <1>6 DEF ShownPixel, ViewOf
  <2>2. Under(s, x, y) = <<back>>
    BY <1>2, <1>6, UnderFromBack
  <2>3. VisibleAfter(front, <<>>) = <<>>
    BY <2>1 DEF VisibleAfter, Overlay
  <2>4. Visible(<<front, back>>) = VisibleAfter(back, <<>>)
    BY <2>3, VisibleOfTwo
  <2>5. Visible(<<back>>) = VisibleAfter(back, <<>>)
    BY VisibleOfOne
  <2> QED BY <1>4, <2>2, <2>4, <2>5
<1> QED BY <1>5, <1>6

(* A frame without objects is the views, one over the other.               *)
LEMMA ViewsAlone ==
  ASSUME FrameInv, step = "composed", scene.objects = <<>>,
         NEW x \in Nat, NEW y \in Nat, x < DisplayWidth, y < DisplayHeight
  PROVE  composed[y * scene.output_stride + x] = Under(scene, x, y)
<1>1. /\ scene \in Scenes /\ ValidScene(scene)
      /\ composed \in [OutputBytes(scene) -> Seq(Entries)]
      /\ \A o \in OutputBytes(scene) :
            ByteSound(scene, step, priority, object, o, composed[o])
  BY DEF FrameInv, Typed
<1>2. PICK stride \in Nat, width \in Nat, height \in Nat :
         /\ stride = scene.output_stride /\ width = DisplayWidth /\ height = DisplayHeight
         /\ stride >= width
  BY <1>1, DisplayAssumption DEF Scenes, ValidScene
<1>3. PICK o : o = y * stride + x
  OBVIOUS
<1>4. o % stride = x /\ o \div stride = y
  <2>1. x < stride
    BY <1>2
  <2>2. (y * stride + x) % stride = x /\ (y * stride + x) \div stride = y
    BY <2>1, Quotient
  <2> QED BY <1>3, <2>2
<1>5. o \in OutputBytes(scene)
  <2>1. PICK more \in Nat, above \in Nat, rest \in Nat :
           more = height - 1 - y /\ above = y * stride /\ rest = more * stride
    <3>1. PICK more \in Nat : more = height - 1 - y
      BY <1>2
    <3>2. y * stride \in Nat /\ more * stride \in Nat
      BY <1>2, <3>1
    <3> QED BY <3>1, <3>2
  <2>2. stride * height = above + rest + stride
    <3>1. height = y + more + 1
      BY <1>2, <2>1
    <3>2. stride \in Nat /\ y \in Nat /\ more \in Nat
      OBVIOUS
    <3>3. stride * (y + more + 1) = y * stride + more * stride + stride
      BY <3>2
    <3> QED BY <2>1, <3>1, <3>3
  <2>3. PICK size \in Nat : size = stride * height /\ size = above + rest + stride
    BY <1>2, <2>1, <2>2
  <2>4. x < stride
    BY <1>2
  <2>5. o \in 0 .. size - 1
    <3>1. o = above + x
      BY <1>3, <2>1
    <3> QED BY <2>1, <2>3, <2>4, <3>1
  <2> QED BY <1>2, <2>3, <2>5 DEF OutputBytes
<1>6. Stacked(scene, composed[o], Here(scene, x, y), x, y)
  <2>1. OnDisplay(scene, o)
    BY <1>2, <1>4 DEF OnDisplay
  <2>2. DrawnSoFar(scene, step, priority, object, composed[o], x, y)
    BY <1>1, <1>2, <1>4, <1>5, <2>1 DEF ByteSound
  <2> QED BY <2>2 DEF DrawnSoFar
<1>7. Here(scene, x, y) = {} /\ Cardinality({}) = 0
  BY FS_EmptySet DEF Here
<1>8. PICK under : under = Under(scene, x, y) /\ under \in Seq(Entries)
  BY <1>1, UnderTyped
<1>9. PICK entries \in Seq(Entries) : entries = composed[o]
  BY <1>1, <1>5
<1>10. Len(entries) = 0 + Len(under) /\ \A k \in DOMAIN under : entries[0 + k] = under[k]
  BY <1>6, <1>7, <1>8, <1>9 DEF Stacked
<1>11. /\ Len(under) \in Nat /\ DOMAIN under = 1 .. Len(under)
       /\ Len(entries) \in Nat /\ DOMAIN entries = 1 .. Len(entries)
  BY <1>8, <1>9, LenProperties
<1>12. Len(entries) = Len(under) /\ \A k \in 1 .. Len(under) : entries[k] = under[k]
  BY <1>10, <1>11
<1>13. entries = under
  BY <1>8, <1>9, <1>12, SeqEqual
<1> QED BY <1>2, <1>3, <1>8, <1>9, <1>13

(* The frame decoded from the planes is the frame composed from the same   *)
(* views, whatever the image and whichever backends converted it, and the  *)
(* padding of the decoder's rows is left alone.                            *)
THEOREM FramesAreTheSame == Spec => []FramesAgree
<1>1. DecodedInv /\ FrameInv => FramesAgree
  <2> SUFFICES ASSUME DecodedInv, FrameInv, decoding = "decoded",
                      NEW o \in DOMAIN decoded
               PROVE  LET x == o % job.output_stride
                          y == o \div job.output_stride
                      IN IF x >= DisplayWidth THEN decoded[o] = Kept
                         ELSE job.paired =>
                                 Visible(decoded[o])
                                    = Visible(composed[y * scene.output_stride + x])
    BY DEF FramesAgree
  <2>1. /\ job \in Jobs /\ scene = job.scene /\ step = "composed"
        /\ DOMAIN decoded = Output(job)
        /\ IF o % job.output_stride < DisplayWidth
           THEN job.paired => decoded[o] = Decoded(scene, o % job.output_stride,
                                                   o \div job.output_stride)
           ELSE decoded[o] = Kept
    BY DEF DecodedInv
  <2>2. PICK x \in Nat, y \in Nat :
           /\ x = o % job.output_stride /\ y = o \div job.output_stride
           /\ y < DisplayHeight
    <3>1. job.output_stride \in Nat
      BY <2>1, JobsAssumption
    <3> QED BY <2>1, <3>1, OutputPlace DEF Output
  <2>3. CASE x >= DisplayWidth
    BY <2>1, <2>2, <2>3, DisplayAssumption
  <2>4. CASE ~(x >= DisplayWidth)
    <3>1. x < DisplayWidth
      BY <2>4, DisplayAssumption
    <3> SUFFICES ASSUME job.paired
                 PROVE  Visible(decoded[o])
                           = Visible(composed[y * scene.output_stride + x])
      BY <2>2, <2>4
    <3>2. scene.objects = <<>>
      BY <2>1, JobsAssumption DEF SameImage
    <3>3. composed[y * scene.output_stride + x] = Under(scene, x, y)
      BY <2>1, <2>2, <3>1, <3>2, ViewsAlone
    <3>4. decoded[o] = Decoded(scene, x, y)
      BY <2>1, <2>2, <3>1
    <3>5. scene \in Scenes
      BY DEF FrameInv, Typed
    <3> QED BY <3>3, <3>4, <3>5, SameLook
  <2> QED BY <2>3, <2>4
<1> QED BY <1>1, DecodedInvariance, Invariance, PTL
=============================================================================
