------------------------------ MODULE Storage -------------------------------
(***************************************************************************)
(* The JSON file store of internal/storage: one file per conversation      *)
(* behind one read-write mutex.  Every operation runs under the mutex, so  *)
(* it is one step; the file system shows through in two places only.       *)
(* os.WriteFile truncates the file and then writes it: an I/O error or a   *)
(* crash between the two leaves a file no reader can decode.               *)
(***************************************************************************)
EXTENDS Conversation

CONSTANTS
    Convs,      \* conversation identifiers
    NoFile,     \* the conversation has no file
    Torn        \* the file is truncated or half written

ASSUME DistinctContents ==
    /\ NoFile # Torn
    /\ NoFile \notin Conversations
    /\ Torn \notin Conversations
    /\ Nil \notin Approval
    /\ Nil \notin Conversations

VARIABLE disk   \* disk[c]: the content of conversation c's file

DiskTypeOK == disk \in [Convs -> Conversations \cup {NoFile, Torn}]

\* LoadConversation succeeds
Readable(c) == disk[c] \notin {NoFile, Torn}

\* Mutant of FindByApprovalUUID: the UUIDs are not compared
FindAnyWaiting(u) == {c \in Convs : Readable(c) /\ disk[c].pending # Nil}

\* FindConversationByApprovalUUID: files that cannot be decoded are skipped
FindByApprovalUUID(u) ==
    {c \in Convs : Readable(c) /\ disk[c].pending # Nil /\ disk[c].pending.uuid = u}

OnDisk(u) == FindByApprovalUUID(u) # {}

SaveConversation(c, conv) == disk' = [disk EXCEPT ![c] = conv]

\* os.WriteFile fails: before it opened the file, or after it truncated it
SaveFails(c) == disk' \in {disk, [disk EXCEPT ![c] = Torn]}

\* The process dies; the one writer the mutex lets in may leave a torn file
DieWhileWriting(writes) ==
    \E torn \in SUBSET writes :
        /\ \A c, d \in torn : c = d
        /\ disk' = [c \in Convs |-> IF c \in torn THEN Torn ELSE disk[c]]

=============================================================================
