------------------------------- MODULE MCDtm --------------------------------
(***************************************************************************)
(* Two harts and three words of memory.  Chunks of up to three words start  *)
(* at the first or the second word, so that some run off the memory's end.  *)
(***************************************************************************)
EXTENDS Dtm

ThreeWords == 0 .. 2
FirstWords == 0 .. 1
TwoFiles == {<< <<1, 0>>, <<0, 2>> >>, << <<7, 1>>, <<1, 1>> >>}
BootPc == <<0, 1>>
EntryPc == <<8, 1>>
=============================================================================
