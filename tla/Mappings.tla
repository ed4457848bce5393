------------------------------- MODULE Mappings ------------------------------
(***************************************************************************)
(* The message_mappings table as a set of rows                             *)
(*   [key, srcChat, src, dstChat, dst, dir, account]                       *)
(* and the queries the bridge runs on it.  A query with LIMIT 1 is the set *)
(* of rows it may return: the caller gets any one of them.                 *)
(***************************************************************************)
EXTENDS Naturals

\* Mutant of FindBySource: the chat of the source is not looked at.
FindByMessage(rows, chat, msg) == {r \in rows : r.src = msg}

FindBySource(rows, chat, msg) ==
    {r \in rows : r.srcChat = chat /\ r.src = msg}

FindByTarget(rows, chat, msg) ==
    {r \in rows : r.dstChat = chat /\ r.dst = msg}

\* The unique index on (source_chat_id, source_message_id) refuses the row.
Duplicate(rows, row) == FindBySource(rows, row.srcChat, row.src) # {}

\* Mutant of resolveReplyTarget: a mirror stands for itself.
ReplyTargetSameSide(rows, chat, msg) ==
    LET back  == FindByTarget(rows, chat, msg)
        forth == FindBySource(rows, chat, msg)
    IN  IF back # {} THEN {r.dst : r \in back}
        ELSE IF forth # {} THEN {r.dst : r \in forth} ELSE {0}

\* The ids resolveReplyTarget may return for a reply to msg in chat; 0 is
\* "not found".  A mirror stands for its source, tried first; otherwise a
\* source stands for its mirror.
resolveReplyTarget(rows, chat, msg) ==
    LET back  == FindByTarget(rows, chat, msg)
        forth == FindBySource(rows, chat, msg)
    IN  IF back # {}       THEN {r.src : r \in back}
        ELSE IF forth # {} THEN {r.dst : r \in forth}
        ELSE {0}
==============================================================================
