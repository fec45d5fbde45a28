--------------------------- MODULE MCSshAutoPort ---------------------------
EXTENDS SshAutoPort

\* Ports 3 and 4 are watched.  While another program holds 3, remote 3 is
\* remapped to 4 or 2, and remote 4 may find no port at all.
MCPort == 2 .. 4
MCWatched == {3, 4}
MCPrivileged == {}
MCLocal == {3}
============================================================================
