------------------------------- MODULE FileList -------------------------------
(* The file manager of the configuration windows (cmd/slackdump/internal/ui/      *)
(* bubbles/filemgr): a list of the files and directories of one directory, a      *)
(* cursor in it, and a stack of the cursors left in the directories above.  A     *)
(* directory is changed at once, its list is read by a command and comes as a     *)
(* message later: lists may come in any order, and do not say whether they are    *)
(* still wanted.                                                                  *)
EXTENDS Integers, Sequences, FiniteSets, FiniteSetsExt, SequencesExt, Bags
CONSTANTS
  Tree,       \* path -> [files, dirs], the names of the matching files and of the directories, in order
  MaxDepth,   \* bound on the length of a path
  MaxReads,   \* bound on the lists on their way
  MaxRemoved  \* bound on the files removed by somebody else
VARIABLES
  tree,       \* the directories as they are
  Directory, files, cursor, viewStack,  \* of the Model; a cursor counts from 1
  reads,      \* directories whose lists are on their way, a bag
  chosen,     \* the path of the file chosen, <<>> if there is none yet
  panicked,   \* an index was out of range
  hasty,      \* a key was pressed while a list was on its way
  dotted      \* ".." was entered

vars == <<tree, Directory, files, cursor, viewStack, reads, chosen, panicked, hasty, dotted>>

Root == <<>>
Up == [name |-> "..", dir |-> TRUE]
EntriesOf(names, dir) == [i \in DOMAIN names |-> [name |-> names[i], dir |-> dir]]

\* The list of a directory: the way up, the files, the directories.
List(d) == (IF d = Root THEN <<>> ELSE <<Up>>) \o EntriesOf(tree[d].files, FALSE) \o EntriesOf(tree[d].dirs, TRUE)

\* filepath.Join and filepath.Dir.
Parent(d) == IF d = Root THEN Root ELSE Front(d)
Join(d, name) == IF name = ".." THEN Parent(d) ELSE Append(d, name)

Init ==
  /\ tree = Tree /\ Directory = Root /\ files = <<>> /\ cursor = 1 /\ viewStack = <<>>
  /\ reads = SetToBag({Root}) /\ chosen = <<>>
  /\ panicked = FALSE /\ hasty = FALSE /\ dotted = FALSE

Read(d) == BagCardinality(reads) < MaxReads /\ reads' = reads (+) SetToBag({d})
Pressed == ~panicked /\ chosen = <<>> /\ hasty' = (hasty \/ reads # EmptyBag)

\* A list comes; the directory may not be there, then an error comes that is only logged.
Populate(d) ==
  /\ BagIn(d, reads) /\ reads' = reads (-) SetToBag({d})
  /\ files' = IF d \in DOMAIN tree THEN List(d) ELSE files
  /\ UNCHANGED <<tree, Directory, cursor, viewStack, chosen, panicked, hasty, dotted>>

\* The cursor moves within the list.
Move ==
  /\ Pressed
  /\ \/ cursor' = IF cursor > 1 THEN cursor - 1 ELSE cursor
     \/ cursor' = IF cursor < Len(files) THEN cursor + 1 ELSE cursor
     \/ cursor' = 1
  /\ UNCHANGED <<tree, Directory, files, viewStack, reads, chosen, panicked, dotted>>

\* A letter: the cursor jumps to the next name that begins with it, here to one of that name.
Jump(name) ==
  /\ Pressed
  /\ LET next == {i \in DOMAIN files : files[i].name = name /\ i > cursor} IN
     cursor' = IF next = {} THEN cursor ELSE Min(next)
  /\ UNCHANGED <<tree, Directory, files, viewStack, reads, chosen, panicked, dotted>>

\* The list is read again.
Refresh ==
  /\ Pressed /\ Read(Directory)
  /\ UNCHANGED <<tree, Directory, files, cursor, viewStack, chosen, panicked, dotted>>

\* Enter: nothing in an empty list; a directory is entered and the cursor put on the stack, a file is chosen.
Enter ==
  /\ Pressed /\ files # <<>>
  /\ IF cursor > Len(files)
     THEN panicked' = TRUE /\ UNCHANGED <<Directory, cursor, viewStack, reads, chosen, dotted>>
     ELSE LET f == files[cursor] IN
       IF f.dir
       THEN /\ Directory' = Join(Directory, f.name) /\ Len(Directory') <= MaxDepth
            /\ viewStack' = Append(viewStack, cursor) /\ Len(viewStack) < MaxDepth + 1
            /\ cursor' = 1 /\ Read(Directory')
            /\ dotted' = (dotted \/ f = Up)
            /\ UNCHANGED <<chosen, panicked>>
       ELSE /\ chosen' = Append(Directory, f.name)
            /\ UNCHANGED <<Directory, cursor, viewStack, reads, panicked, dotted>>
  /\ UNCHANGED <<tree, files>>

\* Backspace: to the directory above, the cursor from the stack.
Back ==
  /\ Pressed /\ viewStack # <<>>
  /\ cursor' = Last(viewStack) /\ viewStack' = Front(viewStack)
  /\ Directory' = Parent(Directory) /\ Read(Directory')
  /\ UNCHANGED <<tree, files, chosen, panicked, dotted>>

\* The first file of a directory is removed by somebody else.
Vanish(d) ==
  /\ tree[d].files # <<>>
  /\ Cardinality({e \in DOMAIN Tree : tree[e] # Tree[e]}) < MaxRemoved
  /\ tree' = [tree EXCEPT ![d].files = Tail(@)]
  /\ UNCHANGED <<Directory, files, cursor, viewStack, reads, chosen, panicked, hasty, dotted>>

Names == {".."} \union UNION {Range(Tree[d].files) \union Range(Tree[d].dirs) : d \in DOMAIN Tree}

Next ==
  \/ Move \/ Refresh \/ Enter \/ Back
  \/ \E n \in Names : Jump(n)
  \/ \E d \in BagToSet(reads) : Populate(d)
  \/ \E d \in DOMAIN Tree : Vanish(d)

Spec == Init /\ [][Next]_vars
-----------------------------------------------------------------------------
TypeOK ==
  /\ Directory \in Seq(Names) /\ cursor \in Nat /\ viewStack \in Seq(Nat)
  /\ IsABag(reads) /\ chosen \in Seq(Names)

\* Nothing was removed.
Still == tree = Tree

\* Unless keys were pressed while a list was on its way, the list on the screen is that of the
\* directory named above it, and a file that is chosen exists.
ListIsOfDirectory ==
  ~hasty /\ Still =>
    /\ reads = EmptyBag => files = List(Directory)
    /\ chosen # <<>> => \E i \in DOMAIN tree[Parent(chosen)].files : tree[Parent(chosen)].files[i] = Last(chosen)

\* Backspace returns to the directory one has come from, the cursor on the directory one was in -
\* unless one has gone up by "..", which also puts a cursor on the stack.
BackRestores ==
  ~hasty /\ ~dotted /\ Still =>
    /\ Len(viewStack) = Len(Directory)
    /\ \A n \in DOMAIN viewStack :
         LET l == List(SubSeq(Directory, 1, n - 1)) IN
         viewStack[n] \in DOMAIN l /\ l[viewStack[n]].name = Directory[n]

\* The cursor is outside the list only after haste, after a removal, or after going up by "..".
PanicNeedsCause == panicked => hasty \/ dotted \/ ~Still
=============================================================================
