------------------------------ MODULE MCBuffer ------------------------------
(* Two buffers; modes of one and two lines and of two depths, among them the *)
(* longest line a c_int of seven bits holds, one that is longer, and one mode *)
(* above the area limit; user modes whose stride wraps and whose height turns *)
(* negative; areas that are a part of a picture or all of it.                *)
EXTENDS Buffer, TLC

MCMode(w, h, bpp, format) ==
  [width |-> w, height |-> h, bits_per_pixel |-> bpp, pixel_format |-> format]

MCModes == { MCMode(1, 2, 32, "Xrgb8888"), MCMode(15, 1, 32, "Xrgb8888"),
             MCMode(16, 1, 32, "Xrgb8888"), MCMode(2, 2, 16, "other"),
             MCMode(6, 3, 16, "other") }

MCUserModes == { MCMode(33, 1, 32, "Xrgb8888"), MCMode(1, 70, 0, "other") }

MCArea(x1, y1, x2, y2) == [x1 |-> x1, y1 |-> y1, x2 |-> x2, y2 |-> y2]

MCAreas == { MCArea(0, 0, 1, 1), MCArea(0, 1, 1, 2), MCArea(2, 0, 15, 1) }

MCConfig == [width_pixels |-> 8, height_pixels |-> 2]

MCSymmetry == Permutations(Ids)
=============================================================================
