------------------------------- MODULE MCSftp --------------------------------
(***************************************************************************)
(* SftpClient with a few programs: each scenario is a program, the id of   *)
(* its first request, what the server may do, and how often the channel    *)
(* does not deliver everything.                                            *)
(***************************************************************************)
EXTENDS SftpClient

Again(call) == [call EXCEPT !.again = TRUE]

Does0(op, arg) == Does(op, 0, arg, 0)

\* Ids that all look alike, and (from IdBase on) ids that do not.
FirstIds == {0, IdBase}

Scenario(todo, id, version, may, parts) ==
  [todo |-> <<Again(Does0("init", ""))>> \o todo \o <<Quit>>, sftp |-> NewSftp(id),
   server |-> Server(version, may), parts |-> parts]

Faults == {{}, {"refuse"}, {"close"}, {"cut"}, {"drop"}, {"ok first"}}

\* A file is read to its end, in more than one piece, and another is written.
Reading == <<Again(Does0("open", "a")), Again(Does("read", 1, "", 3)), Again(Does("read", 1, "", 2)),
             Again(Does("close", 1, "", 0))>>

Writing == <<Again(Does0("open", "b")), Again(Does("write", 1, "", 2)), Again(Does("write", 1, "", 1)),
             Does("seek", 1, "", 1), Again(Does("read", 1, "", 1)), Again(Does("close", 1, "", 0))>>

Listing == <<Again(Does0("opendir", "d"))>> \o [i \in 1..(FileSize + 1) |-> Again(Does("readdir", 1, "", 0))]
             \o <<Again(Does("close", 1, "", 0))>>

\* Each of the other calls, followed by one that waits for the same kind of
\* answer; given up or made again after an EAGAIN.
Paths == {Does0("unlink", "a"), Does0("rename", "a"), Does0("mkdir", "a"), Does0("rmdir", "a"),
          Does0("stat", "STAT"), Does0("stat", "SETSTAT"), Does0("symlink", "SYMLINK"),
          Does0("symlink", "READLINK"), Does0("symlink", "REALPATH")}

PathScenarios ==
  {Scenario(<<c, Again(Does0("rmdir", "b"))>>, id, version, may, 1) :
     c \in Paths \cup {Again(x) : x \in Paths}, id \in FirstIds, version \in {1, 6}, may \in {{}, {"refuse"}}}

\* An open or a read is given up, and then another made.
GivingUp ==
  {<<Does0("open", "a"), Again(Does0("open", "b")), Again(Does("write", 1, "", 1)),
     Again(Does("fstat", 1, "FSTAT", 0))>>,
   <<Again(Does0("open", "a")), Again(Does0("open", "b")), Does("read", 1, "", 2), Again(Does("read", 2, "", 2)),
     Does("fstat", 1, "FSETSTAT", 0), Again(Does("close", 1, "", 0))>>}

MCScenarios ==
  {Scenario(todo, 0, 3, may, 2) : todo \in {Reading, Writing, Listing}, may \in Faults}
  \cup {Scenario(todo, id, 3, may, 2) : todo \in GivingUp, may \in Faults, id \in FirstIds}
  \cup PathScenarios
  \cup {Scenario(<<Again(Does0("unlink", "a")), Again(Does0("mkdir", "a"))>>, 0, 3, may, 1) : may \in {{}, {"refuse"}}}
  \cup {[Scenario(Reading, 0, 3, {}, 1) EXCEPT !.sftp.refused = TRUE]}

=============================================================================
