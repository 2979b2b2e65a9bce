----------------------------- MODULE MCPdfXref -----------------------------
EXTENDS PdfXref

\* A dictionary and a stream, written once and saved either way; and a lone
\* dictionary changed by a second revision, with room for two signatures.
Table(entries) == [n \in Num |-> IF n \in DOMAIN entries THEN entries[n] ELSE Unset]
Dict(s) == InFile([dict |-> s, stm |-> None])
Once == <<Revision(Table(<<Dict(0), InFile([dict |-> 0, stm |-> 0])>>))>>
Revised == <<Revision(Table(<<Dict(1)>>)), Revision(Table(<<Dict(0)>>))>>
MCStarts == {[file |-> Once, program |-> p] : p \in {"full", "incremental"}}
            \cup {[file |-> Revised, program |-> "incremental"]}
=============================================================================
