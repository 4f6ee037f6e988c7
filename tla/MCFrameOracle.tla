--------------------------- MODULE MCFrameOracle ---------------------------
(* A display of 40 x 2 pixels, images of 24 to 64 pixels and objects of a  *)
(* few.                                                                    *)
EXTENDS FrameOracle

Surface(name, width, height, slack) ==
    [name |-> name, width |-> width, height |-> height,
     stride |-> width + slack]
View(surface, from, size, at) ==
    [surface |-> surface, from |-> from, size |-> size, at |-> at,
     shown |-> TRUE]
Hidden == [View(Surface("none", 0, 0, 0), <<0, 0>>, <<0, 0>>, <<0, 0>>)
           EXCEPT !.shown = FALSE]
Thing(view, level, hint) ==
    [surface |-> view.surface, from |-> view.from, size |-> view.size,
     at |-> view.at, shown |-> view.shown, priority |-> level, hint |-> hint]

Scene(planar, pixel, objects, camera) ==
    [planar |-> planar, pixel |-> pixel, objects |-> objects,
     camera |-> camera, output_stride |-> 42]
Nothing == Scene(Hidden, Hidden, <<>>, <<0, 0>>)

(* A scene drawn and nothing converted.                                    *)
Drawing(s) ==
    [scene |-> s, calls |-> <<>>, plane_bytes |-> 1, plane_stride |-> 1,
     cleared |-> TRUE, output |-> 8, output_stride |-> 42,
     decodes |-> FALSE, paired |-> FALSE]

-----------------------------------------------------------------------------
PlanarView == View(Surface("back", 12, 3, 1), <<1, 0>>, <<9, 2>>, <<-2, 0>>)
PixelView == View(Surface("front", 8, 2, 0), <<0, 1>>, <<6, 1>>, <<36, 1>>)
(* Coordinates at both ends of their range: 8 bits stand for 32.           *)
Near(name, level) ==
    Thing(View(Surface(name, 4, 2, 0), <<1, 0>>, <<3, 2>>, <<127, 0>>),
          level, "auto")
Beside(name, level) ==
    Thing(View(Surface(name, 2, 1, 3), <<0, 0>>, <<2, 1>>, <<126, 1>>),
          level, "sprite")

(* Three objects in each order of priority, seen from cameras that show    *)
(* all of them, some of them or none.                                      *)
Layered ==
    {Scene(PlanarView, PixelView,
           <<Near("a", p), Beside("b", q), Near("c", r)>>, camera) :
        p \in 0 .. 2, q \in 1 .. 2, r \in {0, 2},
        camera \in {<<125, 0>>, <<-128, 0>>, <<88, -1>>}}

Wrong(view) == Scene(view, Hidden, <<Near("a", 0)>>, <<120, 0>>)
Invalid ==
    {Wrong([PlanarView EXCEPT !.size[1] = 12]), Wrong([PlanarView EXCEPT !.from[2] = 2]),
     Wrong([PlanarView EXCEPT !.surface.stride = 11]),
     Wrong([PlanarView EXCEPT !.size[2] = 0]),
     Scene(PlanarView, Hidden, <<Near("a", 0), Thing(PlanarView, 1, "none")>>, <<0, 0>>),
     Scene(PlanarView, Hidden, [i \in 1 .. 4 |-> Near("a", 0)], <<0, 0>>),
     [Nothing EXCEPT !.output_stride = 39]}

-----------------------------------------------------------------------------
Layer(playfield, format, stride) ==
    [playfield |-> playfield, format |-> format, stride |-> stride]
Call(backend, layers, width, height, stride, base) ==
    [backend |-> backend, layers |-> layers, width |-> width,
     height |-> height, plane_stride |-> stride, base |-> base]

(* Conversions of two rows into planes with room around the image.         *)
Converting(asked) ==
    [Drawing(Nothing) EXCEPT !.calls = asked, !.plane_bytes = 21,
                             !.cleared = FALSE]

Groups8 == {"reference", "lookup", "pair_lut_m68k"}
Groups32 == {"mask32", "mask32_m68k"}
One(backend, playfield, format, width, slack, stride, base) ==
    Call(backend, <<Layer(playfield, format, BytesOf(format, width) + slack)>>,
         width, 2, stride, base)
Two(one, two, width, slack) ==
    Call("reference", <<Layer("front", one, BytesOf(one, width) + slack),
                        Layer("back", two, BytesOf(two, width))>>,
         width, 2, width \div 8 + slack, 1)

Conversions ==
    {<<One(backend, "front", format, 64, slack, 8 + slack, 2)>> :
        backend \in Groups32, format \in {"packed4", "byte4"},
        slack \in 0 .. 1}
    \union
    {<<One(backend, "back", format, 24, slack, 4, 1),
       One(backend, "front", format, 16, 0, 2, 0)>> :
        backend \in Groups8, format \in {"packed4", "byte4"},
        slack \in {0, 3}}
    \union
    {<<Two("packed4", "packed4", 16, 1)>>, <<Two("byte4", "byte4", 24, 0)>>,
     <<Two("byte4", "packed4", 16, 2)>>, <<Two("fb8", "fb8", 16, 0)>>}

(* Calls that are refused, after one that is not.                          *)
Refused ==
    {<<One("reference", "front", "byte4", 16, 0, 2, 0), bad>> :
        bad \in {One("reference", "front", "byte4", 12, 0, 4, 0),
                 One("lookup", "front", "packed4", 0, 0, 1, 0),
                 One("pair_lut_m68k", "back", "packed4", 24, -1, 3, 0),
                 One("reference", "back", "byte4", 24, 0, 2, 0),
                 One("mask32", "back", "byte4", 40, 0, 5, 0),
                 One("mask32_m68k", "back", "packed4", 64, 0, 7, 0),
                 Call("mask32_m68k", <<Layer("back", "byte4", 32)>>,
                      32, 0, 4, 0)}}

-----------------------------------------------------------------------------
(* The back playfield by the reference, the front one in a viewport of it  *)
(* by each backend: run_canonical_backend.                                 *)
Compared(asked, front) ==
    [Drawing(Scene(View(Surface("back", 40, 2, 0), <<0, 0>>, <<40, 2>>, <<0, 0>>),
                   front, <<>>, <<0, 0>>))
        EXCEPT !.calls = asked, !.plane_bytes = 10, !.plane_stride = 5,
               !.output = 80, !.decodes = TRUE, !.paired = TRUE]

Canonical(backend, format, width, height, x, y) ==
    Compared(<<One("reference", "back", "byte4", 40, 0, 5, 0),
               Call(backend,
                    <<Layer("front", format, BytesOf(format, width))>>,
                    width, height, 5, 5 * y + x \div 8)>>,
             View(Surface("front", width, height, 0), <<0, 0>>,
                  <<width, height>>, <<x, y>>))

Pairings ==
    {Canonical(backend, format, 32, h, 8, 2 - h) :
        backend \in Groups8 \union Groups32,
        format \in {"packed4", "byte4"}, h \in 1 .. 2}
    \union
    {Compared(<<[Two("byte4", "byte4", 40, 0) EXCEPT !.base = 0]>>,
              View(Surface("front", 40, 2, 0), <<0, 0>>, <<40, 2>>, <<0, 0>>))}

(* A decoder given too little room, or an output in the planes' way, or    *)
(* just out of it: at -82 it ends where they begin.                        *)
Undecoded ==
    LET sound == Canonical("mask32", "byte4", 32, 1, 8, 1)
    IN {[sound EXCEPT !.plane_stride = 4, !.paired = FALSE],
        [sound EXCEPT !.output_stride = 39],
        [sound EXCEPT !.output = 79], [sound EXCEPT !.output = -60],
        [sound EXCEPT !.output = -82],
        [sound EXCEPT !.output_stride = 40]}

MCJobs ==
    {Drawing(s) : s \in Layered \union Invalid}
    \union {Converting(c) : c \in Conversions \union Refused}
    \union Pairings \union Undecoded
=============================================================================
