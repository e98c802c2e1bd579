----------------------------- MODULE MCDataReader -----------------------------
EXTENDS DataReader

\* Three events on two pages, two records about the convention, one row in
\* every other table but links.
FewRows == [t \in KnownTables |->
    CASE t = "events" -> 3 [] t = "about" -> 2 [] t = "links" -> 0 [] OTHER -> 1]

\* Two events that start together, one of which never ends, one that starts
\* first and ends last; the event that may be added ends before it starts.
Starts == [i \in RowId |-> <<2, 1, 2, 2>>[i]]
Ends   == [i \in RowId |-> <<3, 4, 0, 1>>[i]]

Hosts == [i \in RowId |-> {1, i}]

Attached == [about         |-> [i \in RowId |-> {<<"about", i>>}],
             pages         |-> [i \in RowId |-> {<<"pages", i>>}],
             announcements |-> [i \in RowId |-> {}]]
================================================================================
