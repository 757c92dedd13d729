-------------------------- MODULE MCRegistryStore --------------------------
EXTENDS RegistryStore

CONSTANTS notes, documents, r1, r2, r3, a, b

\* The agent's notes repeat an id, as a file edited by hand may, and one of its
\* documents has more versions than are kept.
Entry(id, n) == [id |-> id, versions |-> n]
Agent == [c \in {notes, documents} |-> IF c = notes THEN <<Entry(b, 1), Entry(b, 1)>>
                                       ELSE <<Entry(a, 1), Entry(b, 3)>>]

Item(id) == [id |-> id, born |-> "agent", by |-> "agent", versions |-> <<1, 2>>]
Starts == {Damaged, Stored(<<Item(a)>>)}

On(op, id) == [op |-> op, of |-> <<documents>>, id |-> id]
Replace == [op |-> "put", of |-> <<documents>>, id |-> a, versions |-> <<2>>]
Make == [op |-> "create", of |-> <<documents>>]
List == [op |-> "list", of |-> <<documents>>]
ImportAll == [op |-> "import", of |-> <<notes, documents>>]
Asked ==
  {[r \in {r1, r2, r3} |-> IF r = r1 THEN i ELSE IF r = r2 THEN j ELSE k] :
     i \in {ImportAll, Make}, j \in {Replace, On("delete", a), On("append", a), On("delete", r1)},
     k \in {ImportAll, On("append", a), List, On("get", r1)}}
=============================================================================
