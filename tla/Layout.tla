------------------------------- MODULE Layout -------------------------------
(* A record of fixed layout. A layout gives each field its first byte and   *)
(* its width, as the calls that write it do; a byte of the image names the  *)
(* field and the byte of it that was put there.                             *)
EXTENDS Naturals

Image(layout, size) ==
  [k \in 1..size |->
     {<<f, k - 1 - layout[f][1]>> :
        f \in {g \in DOMAIN layout : k - 1 \in layout[g][1]..(layout[g][1] + layout[g][2] - 1)}}]

(* What a reader with a layout of its own finds at offset off of the bytes. *)
FindsAll(layout, bytes, off) ==
  \A f \in DOMAIN layout : \A b \in 0..(layout[f][2] - 1) :
    bytes[off + layout[f][1] + b + 1] = {<<f, b>>}
=============================================================================
