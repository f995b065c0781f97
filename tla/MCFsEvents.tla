----------------------------- MODULE MCFsEvents -----------------------------
(* Places for TLC: the root, /w, a directory below it, and one named alike. *)
EXTENDS FsEvents

w == <<"w">>
MCPlaces == {<<>>, <<w>>, <<w, <<"s">> >>, << <<"w", "2">> >>}
MCWatchPaths == {<<>>, <<w>>}
MCNames == {<<"f">>, <<"g">>, <<"l">>}
MCLongNames == {<<"l">>}

=============================================================================
