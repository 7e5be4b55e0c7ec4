----------------------------- MODULE MCSftpClient -----------------------------
EXTENDS SftpClient, TLC

\* A transfer into the other directory shows there, and the first row of a
\* listing of one is not the first row of a listing of the other.
MCContents == [d \in Dirs |-> IF d = Home THEN {1, 2} ELSE {2}]

\* The servers are alike.
ServerSymmetry == Permutations(Servers)
=============================================================================
