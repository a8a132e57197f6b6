---------------------------- MODULE MCPixelPipe ----------------------------
(* Instances of PixelPipe: the darkroom pipes allocate on demand and have a *)
(* focused module, the export pipe has two lines of known size.             *)
EXTENDS PixelPipe, TLC

\* outputs shrink and grow along the pipe, so lines are resized
GrowingSizes == [p \in Positions |-> IF p % 2 = 0 THEN 2 ELSE 1]

Symmetry == Permutations(Buffers)

============================================================================
