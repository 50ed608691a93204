------------------------------ MODULE MCDiffer ------------------------------
(***************************************************************************)
(* A listing with two v5 entries for the same URL (the last must win), a  *)
(* v5 entry listed before them, and a v6 entry with a URL of its own; one *)
(* local directory; and a URL nobody lists.                               *)
(***************************************************************************)
EXTENDS Differ, SeqFilterCheck

CONSTANTS NoneV, UserDir

MCEntries ==
  << [url |-> "https://l/v5-a", schema |-> 5, checksum |-> 1],
     [url |-> "https://l/v5-b", schema |-> 5, checksum |-> 2],
     [url |-> "https://l/v6-a", schema |-> 6, checksum |-> 3],
     [url |-> "https://l/v5-b", schema |-> 5, checksum |-> 4] >>
MCURLs == {"https://l/v5-a", "https://l/v5-b", "https://l/v6-a", "https://l/v5-x"}
MCPaths == {UserDir}   \* a directory named on the command line
=============================================================================
