--------------------------- MODULE MCSharedAccount ---------------------------
EXTENDS SharedAccount
MCAgent == [a \in Assets |-> 2]
MCBook == [a \in Assets |-> IF a = Idr THEN 2 ELSE 1]
MCSpare == [a \in Assets |-> 1]
MCBuffer == [a \in Assets |-> IF a = Idr THEN 1 ELSE 0]
=============================================================================
