------------------------ MODULE MCFileMutationQueue -------------------------
(* A write and an edit of one file, the edit through a symbolic link, and  *)
(* a write and an edit of a file that only the write can create.           *)
EXTENDS FileMutationQueue, TLC

CONSTANTS e1, e2, w1, w2, file, link, fresh

CanonOf == file :> file @@ link :> file @@ fresh :> fresh
PathsOf == w1 :> file @@ e1 :> link @@ w2 :> fresh @@ e2 :> fresh
ToolsOf == w1 :> "write" @@ e1 :> "edit" @@ w2 :> "write" @@ e2 :> "edit"

\* The condition of the properties about files.
ASSUME LinksLeadToFiles
=============================================================================
