------------------------------- MODULE MCFs --------------------------------
(***************************************************************************)
(* Small instances of the parts of the file system: names, inodes and open *)
(* files, the data of files, and path names.  They are independent: part   *)
(* says which one moves, the others stay as they were initialised.         *)
(***************************************************************************)
EXTENDS MCFiles

VARIABLES
    part,
    data_fs, data_file, data_content,
    path

dataVars  == <<data_fs, data_file, data_content>>
-----------------------------------------------------------------------------
\* Two opens of one file that mkfs copied, with an indirect block.
D == INSTANCE FileData WITH
    BSIZE <- 2, NDIRECT <- 2, FSSIZE <- 16, NLOG <- 1, NINODEBLOCKS <- 1, NBITMAP <- 1,
    MAXOPBLOCKS <- 6, UINTMOD <- 16, Image <- <<5>>, Opens <- <<2, 2>>, Bytes <- {1},
    Sizes <- {3, 8},
    fs <- data_fs, file <- data_file, content <- data_content

Pn == INSTANCE PathName WITH DIRSIZ <- 2, Chars <- {"a", "b"}, MaxLen <- 7

\* The same processes, with calls that go through "..".
Up == INSTANCE Files WITH Calls <- DotCalls, MaxCalls <- DotMaxCalls
-----------------------------------------------------------------------------
FsInit ==
    /\ part \in {"files", "dots", "data", "paths"}
    /\ IF part = "dots" THEN Up!Init ELSE Init
    /\ D!Init /\ Pn!Init

FsNext ==
    /\ \/ part = "files" /\ Next /\ Straight
          /\ UNCHANGED <<dataVars, path>>
       \/ part = "dots" /\ Up!Next /\ Up!Straight
          /\ UNCHANGED <<dataVars, path>>
       \/ part = "data" /\ D!Next
          /\ UNCHANGED <<vars, path>>
       \/ part = "paths" /\ Pn!Next
          /\ UNCHANGED <<vars, dataVars>>
    /\ UNCHANGED part

FsSpec ==
    /\ FsInit
    /\ [][FsNext]_<<vars, dataVars, path, part>>
-----------------------------------------------------------------------------
(* The properties of the other parts, under their own names.                *)

\* Data: a read returns what was written last, also after the file is opened anew.
DataRight == part = "data" => D!DataRight

\* Data: every block is free or in one place of one inode, and a chunk of
\* filewrite(), wherever it falls, logs no more blocks than begin_op() has reserved.
BlocksRight == part = "data" => D!BlocksRight /\ D!ChunkFits

\* Path names: namex() walks the elements of the path.
PathSplit == part = "paths" => Pn!PathSplit
============================================================================
