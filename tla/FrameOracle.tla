---------------------------- MODULE FrameOracle ----------------------------
(***************************************************************************)
(* The graphics oracle of the tests: the frame the reference compositor    *)
(* draws against the frame the reference decoder of the AGA dual playfield *)
(* (src/graphics/aga_reference_decoder.c) reads from the planes that the   *)
(* conversions wrote, as tests/host/c2p4-reference/main.c and              *)
(* tests/host/aga-reference-decoder/main.c put them together.              *)
(*                                                                         *)
(* A job is a scene or none, the conversions to do after it, and the       *)
(* memory: the planes one after the other from address 0, plane_bytes      *)
(* each, cleared or not, and the decoder's output at an address with a     *)
(* stride; "paired" when the scene and the conversions show the same image.*)
(***************************************************************************)
EXTENDS ReferenceFrame, ChunkyPlanar

CONSTANT Jobs

VARIABLES job, decoding, decoded

vars == <<frameVars, conversionVars, job, decoding, decoded>>

RowBytes == DisplayWidth \div 8
LastRow == DisplayHeight - 1

-----------------------------------------------------------------------------
(* storage_span and spans_overlap.                                         *)
Span(begin, stride, row_bytes) ==
    [begin |-> begin, end |-> begin + stride * LastRow + row_bytes]

(* Mutant: storage that begins before the other does not meet it.          *)
MutantOverlap(one, two) == one.begin <= two.begin /\ two.begin < one.end
Overlap(one, two) == one.begin < two.end /\ two.begin < one.end

OutputSpan(j) == Span(j.output, j.output_stride, DisplayWidth)
PlaneSpan(j, p) == Span(p * j.plane_bytes, j.plane_stride, RowBytes)

(* A scene and conversions of the same image: each view that is shown is   *)
(* the whole of the image that the one call for its playfield converts, to *)
(* the place in cleared planes that is the view's on the display; and      *)
(* there are no objects, which are not converted.                          *)
ViewOf(s, playfield) == IF playfield = "front" THEN s.pixel ELSE s.planar
CallsFor(j, playfield) ==
    {k \in DOMAIN j.calls :
        \E l \in DOMAIN j.calls[k].layers :
            j.calls[k].layers[l].playfield = playfield}
ShowsWhole(view, c, playfield, stride) ==
    /\ view.surface.name = playfield
    /\ view.from = <<0, 0>> /\ view.size = <<c.width, c.height>>
    /\ view.at \in Nat \X Nat
    /\ view.at[1] % 8 = 0 /\ view.at[1] + c.width <= DisplayWidth
    /\ Validate(c) = "ok" /\ c.plane_stride = stride
    /\ c.base = view.at[2] * stride + view.at[1] \div 8
SameImage(j) ==
    /\ j.cleared /\ j.scene.objects = <<>> /\ DisplayWidth % 8 = 0
    /\ j.plane_stride * LastRow + RowBytes <= j.plane_bytes
    /\ \A playfield \in {"front", "back"} :
          LET view == ViewOf(j.scene, playfield)
              asked == CallsFor(j, playfield)
          IN IF view.shown
             THEN \E k \in asked :
                     /\ asked = {k}
                     /\ ShowsWhole(view, j.calls[k], playfield, j.plane_stride)
             ELSE asked = {}

(* Of a job that decodes, an output that meets the memory of a plane meets *)
(* the rows that are read of it: what lies behind the last one, which the  *)
(* decoder is told nothing about, is used for nothing else.                *)
ASSUME JobsAssumption ==
    \A j \in Jobs :
        /\ j.scene \in Scenes /\ j.calls \in Seq(ConversionCalls)
        /\ {j.plane_bytes, j.plane_stride, j.output_stride} \subseteq Nat
        /\ j.output \in Int
        /\ j.decodes =>
              \A p \in Planes :
                  LET memory == [begin |-> p * j.plane_bytes,
                                 end |-> p * j.plane_bytes + j.plane_bytes]
                  IN Overlap(memory, OutputSpan(j))
                        => Overlap(PlaneSpan(j, p), OutputSpan(j))
        /\ j.paired => SameImage(j)

ValidDecode(j) ==
    /\ j.plane_stride >= RowBytes /\ j.output_stride >= DisplayWidth
    /\ \A p \in Planes : ~Overlap(PlaneSpan(j, p), OutputSpan(j))

(* Mutant: the playfields one after the other instead of interleaved.      *)
MutantDecodedPixel(x, y) ==
    LET at == y * job.plane_stride + x \div 8
        pixel(first) ==
            [b \in LogicalBits |-> planes[first + b][at][7 - (x % 8)]]
    IN <<Overlay(pixel(0)), Opaque(pixel(4))>>

(* A pixel of the display: the front playfield over the back one.          *)
DecodedPixel(x, y) ==
    LET at == y * job.plane_stride + x \div 8
        pixel(playfield) ==
            [b \in LogicalBits |-> planes[PlaneOf(playfield, b)][at][7 - (x % 8)]]
    IN <<Overlay(pixel("front")), Opaque(pixel("back"))>>

(* The bytes of the decoder's output; one that lies in a plane is a byte   *)
(* of that plane overwritten.                                              *)
Output(j) == 0 .. j.output_stride * DisplayHeight - 1
Written(j) == {o \in Output(j) : o % j.output_stride < DisplayWidth}

Decode ==
    /\ Converted /\ decoding = "waiting"
    /\ step = "composed" /\ job.decodes
    /\ ValidDecode(job)
    /\ decoding' = "decoded"
    /\ decoded' = [o \in DOMAIN decoded |->
                    IF o \in Written(job)
                    THEN DecodedPixel(o % job.output_stride,
                                      o \div job.output_stride)
                    ELSE decoded[o]]
    /\ planes' = [p \in Planes |-> [o \in DOMAIN planes[p] |->
                    IF p * job.plane_bytes + o - job.output \in Written(job)
                    THEN [i \in 0 .. 7 |-> Other("overwritten")]
                    ELSE planes[p][o]]]
    /\ UNCHANGED <<frameVars, calls, call, statuses, stage, row, column,
                   source, target, job>>

RefuseDecode ==
    /\ Converted /\ decoding = "waiting"
    /\ step = "composed" /\ job.decodes
    /\ ~ValidDecode(job)
    /\ decoding' = "refused"
    /\ UNCHANGED <<frameVars, conversionVars, job, decoded>>

Memory(j) ==
    [p \in Planes |-> [o \in 0 .. j.plane_bytes - 1 |->
        [i \in 0 .. 7 |-> IF j.cleared THEN Zero ELSE Other("old")]]]

Init ==
    \E j \in Jobs :
        /\ job = j
        /\ FrameInit(j.scene, j.scene.output_stride * DisplayHeight)
        /\ ConversionInit(j.calls, Memory(j))
        /\ decoding = "waiting"
        /\ decoded = [o \in 0 .. j.output_stride * DisplayHeight - 1 |-> Kept]

Next ==
    \/ FrameNext /\ UNCHANGED <<conversionVars, job, decoding, decoded>>
    \/ /\ step \in {"composed", "refused"}
       /\ ConversionNext
       /\ UNCHANGED <<frameVars, job, decoding, decoded>>
    \/ Decode
    \/ RefuseDecode

Spec == Init /\ [][Next]_vars

-----------------------------------------------------------------------------
(* Every call that returns ok has put each bit of each pixel of its image  *)
(* in the plane, the byte and the bit where it belongs, for every image,   *)
(* whichever backend: by one pixel, by a table of pairs, by five passes of *)
(* exchanges, in C or in 68k registers that go on from row to row; and no  *)
(* byte outside the image is touched, neither the rest of a row nor by a   *)
(* call that is refused, nor by the decoder afterwards.                    *)
PlanesExact ==
    stage = "validate" =>
        \A p \in Planes : \A o \in DOMAIN planes[p] :
            LET over == {k \in DOMAIN statuses :
                            statuses[k] = "ok" /\ Covers(calls[k], p, o)}
                last == CHOOSE k \in over : \A k2 \in over : k2 <= k
            IN planes[p][o] =
                  [i \in 0 .. 7 |->
                      IF over # {} THEN Wanted(calls[last], p, o, i)
                      ELSE IF job.cleared THEN Zero ELSE Other("old")]

(* What is left of a pixel that is seen: a transparent one shows nothing.  *)
Visible(entries) ==
    LET seen[k \in 0 .. Len(entries)] ==
            IF k = 0 THEN <<>>
            ELSE IF entries[k].overlay /\ entries[k].pixel = Black
            THEN seen[k - 1]
            ELSE Append(seen[k - 1], entries[k])
    IN  seen[Len(entries)]

(* The two ways to the display agree: for every image, the frame decoded   *)
(* from the planes is the frame composed from the same views, and what is  *)
(* not part of the display is left as it was.                              *)
FramesAgree ==
    decoding = "decoded" =>
        \A o \in DOMAIN decoded :
            LET x == o % job.output_stride
                y == o \div job.output_stride
            IN IF x >= DisplayWidth THEN decoded[o] = Kept
               ELSE job.paired =>
                        Visible(decoded[o]) =
                        Visible(composed[y * scene.output_stride + x])
=============================================================================
