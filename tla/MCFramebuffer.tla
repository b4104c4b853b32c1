---------------------------- MODULE MCFramebuffer ----------------------------
(* Resolutions of up to 2 in each direction, requests of zero, valid and   *)
(* too large ones, virtual screens smaller and larger than the viewport in *)
(* one direction or both, offsets inside and outside.                      *)
EXTENDS Framebuffer

MCInitial == [xres |-> 2, yres |-> 1, xres_virtual |-> 2, yres_virtual |-> 1,
              xoffset |-> 0, yoffset |-> 0, bytes |-> 2]
MCRequests ==
  {[xres |-> x, yres |-> y[1], xres_virtual |-> xv, yres_virtual |-> y[2],
    xoffset |-> xo, yoffset |-> y[3], bytes |-> b] :
      x \in {0, 1, 2, 3}, xv \in {0, 1, 2}, xo \in {0, 1, 3},
      y \in {<<1, 1, 0>>, <<2, 1, 1>>, <<1, 3, 3>>, <<0, 0, 0>>}, b \in {1, 2}}
=============================================================================
