---------------------------- MODULE MCMySQLPackets ----------------------------
EXTENDS MySQLPackets

\* "a", and a 251-byte response whose length needs three lenenc bytes.
MCNames == {<<>>, <<97>>}
MCAuths == {<<>>, <<97>>, <<0, 97>>, [i \in 1..251 |-> 97]}
MCAttrKeys == {<<>>, <<107>>}
MCAttrValues == {<<>>, <<118>>}
====
