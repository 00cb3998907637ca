----------------------------- MODULE MCCommand -----------------------------
(* Instances of Command for TLC.                                           *)
EXTENDS Command

Chunk(s, long) == [s |-> s, long |-> long]
Sys(prog, stdout, stderr, background) ==
    [kind |-> "System", prog |-> prog, chunks |-> 0, limit |-> 0, Background |-> background,
     treat |-> [s \in Streams |-> IF s = "stdout" THEN stdout ELSE stderr]]
Filter(kind, chunks, limit) ==
    [kind |-> kind, prog |-> <<>>, chunks |-> chunks, limit |-> limit, Background |-> FALSE,
     treat |-> [s \in Streams |-> "quiet"]]

Progs == {<<Chunk("stdout", FALSE), Chunk("stderr", FALSE), Chunk("stdout", long),
            Chunk("stderr", FALSE), Chunk("stdout", FALSE), Chunk("stdout", FALSE)>> :
             long \in BOOLEAN}

\* Every treatment of stdout and stderr, with more than a pipe holds, and lines
\* that are too long; a result of three chunks, written to a file that has room
\* for it or not, and read in part or as a whole; an empty one.
MCConfs ==
    {Sys(p, o, e, b) : p \in Progs, o \in {"gather", "stream", "file", "quiet"},
                       e \in {"gather", "file"}, b \in BOOLEAN}
    \cup {Filter("cmdWriter", 3, l) : l \in 0..3} \cup {Filter("cmdWriter", 0, 0)}
    \cup {Filter("cmdReader", 3, l) : l \in 1..4}
============================================================================
