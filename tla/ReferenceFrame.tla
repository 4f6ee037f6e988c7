--------------------------- MODULE ReferenceFrame ---------------------------
(***************************************************************************)
(* The reference compositor (src/graphics/reference_compositor.c): a       *)
(* planar view, a pixel view over it and objects over both, drawn one over *)
(* the other into a buffer of palette identifiers.                         *)
(*                                                                         *)
(* Pixels are symbolic.  A byte of the output is what is seen there, from  *)
(* front to back: overlay pixels, which are transparent where their colour *)
(* is 0, over one opaque pixel.                                            *)
(*                                                                         *)
(* A scene is                                                              *)
(*   [planar |-> view, pixel |-> view, objects |-> sequence, camera |->    *)
(*    <<x, y>>, output_stride |-> bytes]                                   *)
(* and a view or an object is                                              *)
(*   [surface |-> [name, width, height, stride], from |-> <<x, y>>,        *)
(*    size |-> <<width, height>>, at |-> <<x, y>>, shown |-> BOOLEAN],     *)
(* an object with a priority and a hint as well.  "at" is a place on the   *)
(* screen for a view, in the world for an object.                          *)
(***************************************************************************)
EXTENDS Integers, Sequences, SequencesExt

CONSTANTS
    DisplayWidth, DisplayHeight,    \* 256 and 256 in the code
    MaxObjects,                     \* 256 in the code
    MaxPriority,                    \* UINT8_MAX in the code
    Hints                           \* the backend hints there are

ASSUME DisplayAssumption ==
    {DisplayWidth, DisplayHeight, MaxObjects, MaxPriority} \subseteq Nat

(* What the types of the header admit; the validation looks at the rest.   *)
Surfaces == [name : STRING, width : Nat, height : Nat, stride : Nat]
Views == [surface : Surfaces, from : Nat \X Nat, size : Nat \X Nat,
          at : Int \X Int, shown : BOOLEAN]
Objects == [surface : Surfaces, from : Nat \X Nat, size : Nat \X Nat,
            at : Int \X Int, shown : BOOLEAN, priority : 0 .. MaxPriority,
            hint : STRING]
Scenes == [planar : Views, pixel : Views, objects : Seq(Objects),
           camera : Int \X Int, output_stride : Nat]

VARIABLES scene,
          step,                     \* what is drawn next
          priority, object,         \* the two loops over the objects
          composed                  \* the output

frameVars == <<scene, step, priority, object, composed>>

Opaque(pixel) == [pixel |-> pixel, overlay |-> FALSE]
Overlay(pixel) == [pixel |-> pixel, overlay |-> TRUE]
Black == [b \in 0 .. 3 |-> {}]
Kept == <<Opaque([b \in 0 .. 3 |-> {<<"kept", 0, 0, 0>>}])>>   \* as it was

(* Only the low half of a source byte counts: a pixel is its four bits.    *)
Texel(surface, offset) ==
    LET x == offset % surface.stride
        y == offset \div surface.stride
    IN [b \in 0 .. 3 |-> IF x < surface.width
                         THEN {<<surface.name, x, y, b>>}
                         ELSE {<<"slack", 0, 0, 0>>}]

-----------------------------------------------------------------------------
(* Validation.                                                             *)

(* Mutant: the region may begin anywhere in the surface.                   *)
MutantRegionFits(v) ==
    LET s == v.surface
    IN /\ s.width # 0 /\ s.height # 0 /\ v.size[1] # 0 /\ v.size[2] # 0
       /\ v.size[1] <= DisplayWidth /\ v.size[2] <= DisplayHeight
       /\ s.stride >= s.width
       /\ v.from[1] <= s.width /\ v.from[2] <= s.height
       /\ v.size[1] <= s.width /\ v.size[2] <= s.height

(* validate_surface_region.                                                *)
RegionFits(v) ==
    LET s == v.surface
    IN /\ s.width # 0 /\ s.height # 0 /\ v.size[1] # 0 /\ v.size[2] # 0
       /\ v.size[1] <= DisplayWidth /\ v.size[2] <= DisplayHeight
       /\ s.stride >= s.width
       /\ v.from[1] <= s.width /\ v.from[2] <= s.height
       /\ v.size[1] <= s.width - v.from[1]
       /\ v.size[2] <= s.height - v.from[2]

ValidView(v) == v.shown => RegionFits(v)
ValidObject(o) == o.shown => o.hint \in Hints /\ RegionFits(o)

(* The SIZE_MAX tests of the code are out of reach of any real image.      *)
ValidScene(s) ==
    /\ s.output_stride >= DisplayWidth
    /\ Len(s.objects) <= MaxObjects
    /\ ValidView(s.planar) /\ ValidView(s.pixel)
    /\ \A i \in DOMAIN s.objects : ValidObject(s.objects[i])

-----------------------------------------------------------------------------
(* Drawing.                                                                *)

(* Mutant: the difference wraps like the coordinates, in 8 bits.           *)
MutantOrigin(o, camera) ==
    [k \in 1 .. 2 |-> ((o.at[k] - camera[k] + 128) % 256) - 128]

(* The subtraction is done in 64 bits: it never wraps.                     *)
Origin(o, camera) == <<o.at[1] - camera[1], o.at[2] - camera[2]>>

(* draw_view and draw_object: the rows and columns of the rectangle that   *)
(* fall on the display.                                                    *)
Drawn(v, origin, output, stride, overlay) ==
    [offset \in DOMAIN output |->
        LET x == (offset % stride) - origin[1]
            y == (offset \div stride) - origin[2]
            pixel == Texel(v.surface, (v.from[2] + y) * v.surface.stride
                                      + v.from[1] + x)
        IN IF /\ offset % stride < DisplayWidth
              /\ offset \div stride < DisplayHeight
              /\ x \in 0 .. v.size[1] - 1 /\ y \in 0 .. v.size[2] - 1
           THEN IF overlay THEN <<Overlay(pixel)>> \o output[offset]
                ELSE <<Opaque(pixel)>>
           ELSE output[offset]]

Cleared(output, stride) ==
    [offset \in DOMAIN output |->
        IF offset % stride < DisplayWidth /\ offset \div stride < DisplayHeight
        THEN <<Opaque(Black)>> ELSE output[offset]]

FrameInit(asked, bytes) ==
    /\ scene = asked /\ step = "validate"
    /\ priority = 0 /\ object = 1
    /\ composed = [offset \in 0 .. bytes - 1 |-> Kept]

RefuseScene ==
    /\ step = "validate" /\ ~ValidScene(scene)
    /\ step' = "refused"
    /\ UNCHANGED <<scene, priority, object, composed>>

Clear ==
    /\ step = "validate" /\ ValidScene(scene)
    /\ composed' = Cleared(composed, scene.output_stride)
    /\ step' = "planar"
    /\ UNCHANGED <<scene, priority, object>>

DrawView(view, overlay, next) ==
    /\ composed' = IF ~view.shown THEN composed
                   ELSE Drawn(view, view.at, composed, scene.output_stride,
                              overlay)
    /\ step' = next
    /\ UNCHANGED <<scene, priority, object>>

DrawPlanar == step = "planar" /\ DrawView(scene.planar, FALSE, "pixel")
DrawPixel == step = "pixel" /\ DrawView(scene.pixel, TRUE, "objects")

DrawObject ==
    /\ step = "objects" /\ priority <= MaxPriority
    /\ object <= Len(scene.objects)
    /\ LET o == scene.objects[object]
       IN composed' = IF o.shown /\ o.priority = priority
                      THEN Drawn(o, Origin(o, scene.camera), composed,
                                 scene.output_stride, TRUE)
                      ELSE composed
    /\ object' = object + 1
    /\ UNCHANGED <<scene, step, priority>>

NextPriority ==
    /\ step = "objects" /\ priority <= MaxPriority
    /\ object > Len(scene.objects)
    /\ priority' = priority + 1 /\ object' = 1
    /\ UNCHANGED <<scene, step, composed>>

EndFrame ==
    /\ step = "objects" /\ priority > MaxPriority
    /\ step' = "composed"
    /\ UNCHANGED <<scene, priority, object, composed>>

FrameNext == \/ RefuseScene \/ Clear \/ DrawPlanar \/ DrawPixel
             \/ DrawObject \/ NextPriority \/ EndFrame

-----------------------------------------------------------------------------
(* What ought to be seen at a place of the display.                        *)

(* The pixel of a rectangle at a place, if it is there.                    *)
Shows(v, place, x, y) ==
    /\ v.shown
    /\ x - place[1] \in 0 .. v.size[1] - 1
    /\ y - place[2] \in 0 .. v.size[2] - 1
Seen(v, place, x, y) ==
    [b \in 0 .. 3 |-> {<<v.surface.name, v.from[1] + x - place[1],
                         v.from[2] + y - place[2], b>>}]

(* Higher priority is on top, and the later of two of the same priority.   *)
Above(objects, i, j) ==
    \/ objects[i].priority > objects[j].priority
    \/ objects[i].priority = objects[j].priority /\ i >= j

(* The objects at a place, and how many of them, itself included, cover    *)
(* one of them.                                                            *)
Standing(s, i) == <<s.objects[i].at[1] - s.camera[1],
                    s.objects[i].at[2] - s.camera[2]>>
Here(s, x, y) ==
    {i \in DOMAIN s.objects : Shows(s.objects[i], Standing(s, i), x, y)}
Rank(objects, here, i) == Cardinality({j \in here : Above(objects, j, i)})

Under(s, x, y) ==
    (IF Shows(s.pixel, s.pixel.at, x, y)
     THEN <<Overlay(Seen(s.pixel, s.pixel.at, x, y))>> ELSE <<>>)
    \o (IF Shows(s.planar, s.planar.at, x, y)
        THEN <<Opaque(Seen(s.planar, s.planar.at, x, y))>>
        ELSE <<Opaque(Black)>>)

(* An output byte shows some objects, each at its rank, over the views.    *)
Stacked(s, entries, here, x, y) ==
    LET n == Cardinality(here)
        under == Under(s, x, y)
    IN /\ Len(entries) = n + Len(under)
       /\ \A i \in here :
            entries[Rank(s.objects, here, i)] =
                Overlay(Seen(s.objects[i], Standing(s, i), x, y))
       /\ \A k \in DOMAIN under : entries[n + k] = under[k]

(* "Higher object priority is on top; for equal priority, the later list   *)
(* entry is on top", pixel colour 0 is transparent, the objects cover the  *)
(* pixel view and that the planar view, whatever the loops, the clipping   *)
(* and the camera do on the way; "the complete visible output is           *)
(* overwritten on success", "output row padding is preserved", and "all    *)
(* input is validated before output is modified" (reference_compositor.h). *)
TopmostShown ==
    /\ step = "composed" =>
        \A offset \in DOMAIN composed :
            LET x == offset % scene.output_stride
                y == offset \div scene.output_stride
            IN IF x < DisplayWidth /\ y < DisplayHeight
               THEN Stacked(scene, composed[offset], Here(scene, x, y), x, y)
               ELSE composed[offset] = Kept
    /\ step \in {"validate", "refused"} =>
        \A offset \in DOMAIN composed : composed[offset] = Kept
=============================================================================
