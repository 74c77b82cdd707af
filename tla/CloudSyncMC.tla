------------------------------ MODULE CloudSyncMC ------------------------------
(* A small instance of CloudSync: two playlists that share a file and differ in *)
(* one, so that the second update keeps, fetches and leaves behind a file.      *)
EXTENDS CloudSync

TwoPlaylists == <<<<"a", "b">>, <<"b", "c">>>>

\* A file each: for the run with tasks held up, which has many more states.
ShortPlaylists == <<<<"a">>, <<"b">>>>

===============================================================================
