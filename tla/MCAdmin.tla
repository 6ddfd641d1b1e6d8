------------------------------ MODULE MCAdmin ------------------------------
\* Instances of Admin, and with it Accounts, for TLC.
EXTENDS Admin, TLC

\* The best of the veterans has more than the players can get, the next as much, the last less.
MCVeteranScore == [v \in Veterans |-> 5 - v]

\* Clients are interchangeable, and so are passwords.
AccountsSymmetry == Permutations(Clients) \cup Permutations(Passwords)
=============================================================================
