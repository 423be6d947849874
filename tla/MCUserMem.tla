----------------------------- MODULE MCUserMem -----------------------------
(* Two address spaces of four pages: two for a program and its data, and   *)
(* above them the stack and the arguments, in two page tables.  The frames *)
(* free at boot are in three bytes of the bitmap, two of them partly used  *)
(* by the kernel.  v_loads names nothing, or the page of the file itself.  *)
EXTENDS UserMem, TLC

MCArea(g) == IF g < 2 THEN "low" ELSE "high"
MCLoads == {{}, {0}}
MCImages == {[pages |-> {0}, end |-> 2]}
MCBreaks == {1, 2, 3}
MCBound(c) ==
  CASE c = "all" -> 3 [] c \in {"exec", "sbrk"} -> 2 [] OTHER -> 1
Alike == Permutations(Procs)
=============================================================================
