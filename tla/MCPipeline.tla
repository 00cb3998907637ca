---------------------------- MODULE MCPipeline -----------------------------
EXTENDS Pipeline

Item(kind, name, id) == [kind |-> kind, name |-> name, id |-> id]

ShortData == <<Item("LogEntry", "-", 1), Item("FileData", "a", 1),
               Item("LogEntry", "-", 2)>>

\* The During pipeline of the default configuration, fed by Do.
During == [report |-> <<"SaveFiles", "EmitLog", "writeData">>,
           data |-> Append(ShortData, Item("FileData", "a", 2)),
           multi |-> 0, matched |-> {}, fails |-> TRUE, panics |-> FALSE]

Panicking == [During EXCEPT !.data = ShortData, !.panics = TRUE]

\* An After pipeline, fed by the data file.
After == [report |-> <<"readData", "Analyze", "EmitStreamStats">>,
          data |-> <<Item("StreamIO", "-", 1), FileRef("a")>>,
          multi |-> 2, matched |-> {"a"}, fails |-> TRUE, panics |-> FALSE]

\* One that has an Encode before the writer of the data, and a FileRef that it
\* does not match.
Encoding == [report |-> <<"SaveFiles", "Encode", "writeData">>,
             data |-> <<Item("FileData", "a", 1), Item("FileData", "b", 1)>>,
             multi |-> 0, matched |-> {"a"}, fails |-> TRUE, panics |-> FALSE]

AllPipelines == {During, Panicking, After, Encoding}
============================================================================
