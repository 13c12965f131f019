----------------------------- MODULE Cliphist -----------------------------
(***************************************************************************)
(* The clipboard history of wmcliphist (src/wmcliphist): the list of       *)
(* texts it keeps, the selection it owns at times, and the file it keeps   *)
(* the list in between two sessions.                                       *)
(*                                                                         *)
(* One GTK main loop runs everything.  It polls the clipboard every 250    *)
(* milliseconds; the answer comes later, when the clipboard may have       *)
(* changed hands.  A dialog runs a main loop of its own inside the handler *)
(* that opened it, so that selections arrive in the middle of              *)
(* process_item.                                                           *)
(*                                                                         *)
(* A text goes to one menu, which its action decides, so that the test of  *)
(* menu_item_exists on menu and text is one on the text.                   *)
(***************************************************************************)
EXTENDS Integers, FiniteSets, SequencesExt

CONSTANTS
    Copyable,    \* texts other applications put on the clipboard
    Ignored,     \* those of them whose first action is "ignore"
    Asked,       \* those that start a command, after a question (confirm_exec)
    Garbage,     \* what is read from memory that has been freed
    NoText,      \* no text: an answer without one, no owner, nothing selected
    Self,        \* wmcliphist as the owner of the clipboard
    Dangling,    \* a pointer to a history item that has been freed
    KeepSizes,   \* the numbers of items to keep (-n) a session is started with
    MaxReplies,  \* bound of the model: answers under way
    MaxDialogs   \* bound of the model: questions open at a time

ASSUME CliphistAssumption ==
    /\ Ignored \subseteq Copyable
    /\ Asked \subseteq Copyable \ Ignored
    /\ Garbage \notin Copyable
    /\ {NoText, Self, Dangling} \cap (Copyable \cup {Garbage}) = {}
    /\ Cardinality({NoText, Self, Dangling}) = 3
    /\ KeepSizes \subseteq Nat \ {0}
    /\ MaxReplies \in Nat \ {0} /\ MaxDialogs \in Nat

Texts == Copyable \cup {Garbage}
Items == [text : Texts, locked : BOOLEAN]

VARIABLES
    pc,           \* "down", "toomuch" (the question at the start), "up"
    keep,         \* num_items_to_keep
    autoTake,     \* auto_take_up
    items,        \* history_items, the newest first: their texts
    locked,       \* the texts whose item is locked
    num,          \* num_items
    lockedCount,  \* locked_count
    selected,     \* selected
    owner,        \* who owns the clipboard: Self, another's text, or nobody
    old,          \* old_content of my_get_selection_text
    replies,      \* texts on their way to my_get_selection_text
    dialogs,      \* the content of the calls of process_item that wait
    clipLock,     \* "Clipboard lock" of the application menu
    clipIgnore,   \* "Clipboard ignore"
    file,         \* the data file, its records and whether the last is cut short
    largest,      \* history: the largest keep of a session so far
    saved         \* history: the items at the last save, NoText if it was cut short

list  == <<items, locked, num, lockedCount>>
clip  == <<owner, selected>>
poll  == <<old, replies, dialogs>>
conf  == <<keep, autoTake, largest>>
marks == <<clipLock, clipIgnore>>
disk  == <<file, saved>>
vars  == <<pc, list, clip, poll, conf, marks, disk>>

----------------------------------------------------------------------------
Kept     == ToSet(items)
PlaceOf(t) == CHOOSE i \in 1 .. Len(items) : items[i] = t

\* The item at place i moved to the front of the list.
MovedToFront(i) == Cons(items[i], RemoveAt(items, i))

\* Mutation: the loop stops at the oldest item, whether locked or not.
IsOldest(i) == i \in 1 .. Len(items) /\ i = Len(items)

\* The oldest item that is not locked: where the loop of menu_item_add ends.
IsVictim(i) ==
    /\ i \in 1 .. Len(items)
    /\ items[i] \notin locked
    /\ \A k \in i + 1 .. Len(items) : items[k] \in locked

\* What a list with the set l of locked texts is on disk and in memory.
Records(s, l) == [i \in 1 .. Len(s) |-> [text |-> s[i], locked |-> s[i] \in l]]

\* gtk_selection_owner_set as it is used everywhere: s is selected, or, when
\* the X server refuses, nothing is; o is the owner until then.
Owned(o, s) == {<<Self, s>>, <<o, NoText>>}

Init ==
    /\ pc = "down"
    /\ keep \in KeepSizes /\ largest = keep
    /\ autoTake \in BOOLEAN
    /\ items = << >> /\ locked = {} /\ num = 0 /\ lockedCount = 0
    /\ selected = NoText /\ owner = NoText
    /\ old = NoText /\ replies = << >> /\ dialogs = << >>
    /\ clipLock = FALSE /\ clipIgnore = FALSE
    /\ file = [records |-> << >>, torn |-> FALSE]
    /\ saved = [items |-> << >>, locked |-> {}]

----------------------------------------------------------------------------
(* The list. *)

\* Mutation: the item that was found stays where it is.
LeaveInPlace(t) ==
    /\ t \in Kept
    /\ UNCHANGED list

\* menu_item_exists finds the text.
Promote(t) ==
    /\ t \in Kept
    /\ items' = MovedToFront(PlaceOf(t))
    /\ UNCHANGED <<locked, num, lockedCount>>

\* There is room for a new item, which is not locked.
Insert(t) ==
    /\ t \notin Kept
    /\ num # keep
    /\ items' = Cons(t, items)
    /\ num' = num + 1
    /\ UNCHANGED <<locked, lockedCount>>

\* Mutation: num_items is not decremented.
ReplaceUncounted(t, i) ==
    /\ t \notin Kept
    /\ num = keep
    /\ IsVictim(i)
    /\ items' = Cons(t, RemoveAt(items, i))
    /\ num' = num + 1
    /\ UNCHANGED <<locked, lockedCount>>

\* The list is full: destroy the victim at place i, num_items goes down and up.
Replace(t, i) ==
    /\ t \notin Kept
    /\ num = keep
    /\ IsVictim(i)
    /\ items' = Cons(t, RemoveAt(items, i))
    /\ UNCHANGED <<locked, num, lockedCount>>

\* The pointer to the selected item when the item at place i is freed.
Outlives(i) == IF selected = items[i] THEN Dangling ELSE selected

\* g_assert ((list_node != NULL)) in that loop.
NothingToReplace(t) ==
    /\ t \notin Ignored \cup Kept
    /\ num = keep /\ \A i \in 1 .. Len(items) : items[i] \in locked

\* The end of my_get_selection_text, with o the owner and sel the selected item
\* until then: with the clipboard locked or ignored, wmcliphist makes itself
\* the owner again.
Retake(o, sel) ==
    \E c \in IF clipIgnore \/ clipLock THEN Owned(o, sel) ELSE {<<o, sel>>} :
        owner' = c[1] /\ selected' = c[2]

\* process_item takes the clipboard for its new item if it is told to.
TakeUp(t, sel) ==
    \E c \in IF autoTake THEN Owned(owner, t) ELSE {<<owner, sel>>} : Retake(c[1], c[2])

\* process_item called by my_get_selection_text, and what follows it there.
Learn(t) ==
    \/ t \in Ignored /\ UNCHANGED list /\ Retake(owner, selected)
    \/ t \notin Ignored /\ (Promote(t) \/ Insert(t)) /\ TakeUp(t, selected)
    \/ t \notin Ignored /\ \E i \in 1 .. Len(items) : Replace(t, i) /\ TakeUp(t, Outlives(i))

----------------------------------------------------------------------------
(* The clipboard monitor. *)

\* What selection_handle or another application answers.
Offer == IF owner # Self THEN owner ELSE IF selected = Dangling THEN Garbage ELSE selected

\* time_conv_select and my_get_xselection: the owner of this moment answers.
Ask ==
    /\ pc = "up" /\ Len(replies) < MaxReplies
    /\ replies' = Append(replies, Offer)
    /\ UNCHANGED <<pc, list, clip, old, dialogs, conf, marks, disk>>

\* The frames whose content is the old_content that is freed now.
Freed == [i \in 1 .. Len(dialogs) |-> Garbage]

IsNews(t) == t # old /\ ~clipIgnore

\* my_get_selection_text: no text; a text that is not new or is to be ignored;
\* a new one; a new one about which process_item has to ask first.
ReceiveNothing ==
    /\ pc = "up" /\ replies # << >> /\ Head(replies) = NoText
    /\ replies' = Tail(replies)
    /\ UNCHANGED <<pc, list, clip, old, dialogs, conf, marks, disk>>

ReceiveOld ==
    /\ pc = "up" /\ replies # << >> /\ Head(replies) # NoText
    /\ ~IsNews(Head(replies))
    /\ replies' = Tail(replies)
    /\ Retake(owner, selected)
    /\ UNCHANGED <<pc, list, old, dialogs, conf, marks, disk>>

ReceiveNew ==
    /\ pc = "up" /\ replies # << >> /\ Head(replies) \notin Asked \cup {NoText}
    /\ IsNews(Head(replies))
    /\ replies' = Tail(replies)
    /\ old' = Head(replies) /\ dialogs' = Freed
    /\ Learn(Head(replies))
    /\ UNCHANGED <<pc, conf, marks, disk>>

ReceiveAsked ==
    /\ pc = "up" /\ replies # << >> /\ Head(replies) \in Asked
    /\ IsNews(Head(replies))
    /\ Len(dialogs) < MaxDialogs
    /\ replies' = Tail(replies)
    /\ old' = Head(replies) /\ dialogs' = Append(Freed, Head(replies))
    /\ UNCHANGED <<pc, list, clip, conf, marks, disk>>

\* The user answers, exec_item forks or not, process_item of the innermost
\* main loop goes on with its content.
Answered ==
    /\ pc = "up" /\ dialogs # << >>
    /\ dialogs' = Front(dialogs)
    /\ Learn(Last(dialogs))
    /\ UNCHANGED <<pc, old, replies, conf, marks, disk>>

----------------------------------------------------------------------------
(* The user.  A dialog is modal: menus are out of reach while one is open. *)

\* move_item_to_begin, from the menu and from the hotkey for the second item.
Choose(i) ==
    /\ i \in 1 .. Len(items)
    /\ items' = MovedToFront(i)
    /\ \E c \in Owned(owner, items[i]) : owner' = c[1] /\ selected' = c[2]
    /\ UNCHANGED <<pc, locked, num, lockedCount, poll, conf, marks, disk>>

Activate == pc = "up" /\ dialogs = << >> /\ \E i \in 1 .. Len(items) : Choose(i)
PrevItem == pc = "up" /\ Choose(2)

\* Mutations: without the test of locked_count; every click unlocks.
LockAny(t) ==
    /\ pc = "up" /\ dialogs = << >>
    /\ t \in Kept \ locked
    /\ locked' = locked \cup {t} /\ lockedCount' = lockedCount + 1
    /\ UNCHANGED <<pc, items, num, clip, poll, conf, marks, disk>>
UnlockAny(t) ==
    /\ pc = "up" /\ dialogs = << >>
    /\ t \in Kept
    /\ locked' = locked \ {t} /\ lockedCount' = lockedCount - 1
    /\ UNCHANGED <<pc, items, num, clip, poll, conf, marks, disk>>

\* menu_item_button_released, third button.  "cannot lock all records"
Lock(t) ==
    /\ pc = "up" /\ dialogs = << >>
    /\ t \in Kept \ locked
    /\ lockedCount # keep - 1
    /\ locked' = locked \cup {t} /\ lockedCount' = lockedCount + 1
    /\ UNCHANGED <<pc, items, num, clip, poll, conf, marks, disk>>

Unlock(t) ==
    /\ pc = "up" /\ dialogs = << >>
    /\ t \in locked
    /\ locked' = locked \ {t} /\ lockedCount' = lockedCount - 1
    /\ UNCHANGED <<pc, items, num, clip, poll, conf, marks, disk>>

ToggleMarks ==
    /\ pc = "up" /\ dialogs = << >>
    /\ \/ clipLock' = ~clipLock /\ UNCHANGED clipIgnore
       \/ clipIgnore' = ~clipIgnore /\ UNCHANGED clipLock
    /\ UNCHANGED <<pc, list, clip, poll, conf, disk>>

----------------------------------------------------------------------------
(* The data file. *)

\* Mutation: from the first item to the last.
WriteForwards ==
    /\ file' = [records |-> Records(items, locked), torn |-> FALSE]
    /\ saved' = [items |-> items, locked |-> locked]

\* history_save: the items from the last to the first, into a file that takes
\* the place of the data file when it is complete.  A save that fails leaves
\* the data file alone and is not a step.
WriteOut ==
    /\ file' = [records |-> Records(Reverse(items), locked), torn |-> FALSE]
    /\ saved' = [items |-> items, locked |-> locked]

\* Nobody looks at what fclose returns: what stdio had kept back may be lost
\* between two records, or within one, and the file is renamed all the same.
WriteShort ==
    /\ \E k \in 0 .. Len(items) - 1 :
         file' \in [records : {Records(SubSeq(Reverse(items), 1, k), locked)},
                    torn : BOOLEAN]
    /\ saved' = NoText

\* The autosave timer and "Save history".
Save ==
    /\ pc = "up"
    /\ WriteOut \/ WriteShort
    /\ UNCHANGED <<pc, list, clip, poll, conf, marks>>

\* The process is gone with all it had in memory.
Vanish ==
    /\ pc' = "down"
    /\ items' = << >> /\ locked' = {} /\ num' = 0 /\ lockedCount' = 0
    /\ selected' = NoText
    /\ owner' = IF owner = Self THEN NoText ELSE owner
    /\ old' = NoText /\ replies' = << >> /\ dialogs' = << >>
    /\ clipLock' = FALSE /\ clipIgnore' = FALSE
    /\ UNCHANGED conf

\* "Exit" of the menu, after a save.
Exit ==
    /\ pc = "up" /\ dialogs = << >>
    /\ WriteOut \/ WriteShort
    /\ Vanish

\* The window is destroyed (wmcliphist_exit saves nothing), the process is
\* killed, or the user exits although the save has failed.
Stop ==
    /\ pc = "up"
    /\ Vanish
    /\ UNCHANGED disk

\* Where the program aborts: the assertion of menu_item_add, freed memory, and
\* the hotkey that runs a command on the first item of an empty list.
Abort ==
    /\ pc = "up"
    /\ \/ /\ replies # << >> /\ Head(replies) \in Texts \ Asked
          /\ IsNews(Head(replies)) /\ NothingToReplace(Head(replies))
       \/ dialogs # << >> /\ NothingToReplace(Last(dialogs))
       \/ dialogs # << >> /\ Last(dialogs) = Garbage
       \/ owner = Self /\ selected = Dangling
       \/ items = << >>
    /\ Vanish
    /\ UNCHANGED disk

\* main and history_load with k items to keep: the records are processed from
\* the oldest on, until the list is full.  A record cut short before that ends
\* the program: it is not a step.
Start(k) ==
    LET n    == IF Len(file.records) < k THEN Len(file.records) ELSE k
        read == SubSeq(file.records, 1, n)
    IN  /\ pc = "down"
        /\ file.torn => n = k
        /\ keep' = k /\ largest' = IF k > largest THEN k ELSE largest
        /\ items' = Reverse([i \in 1 .. n |-> read[i].text])
        /\ locked' = {read[i].text : i \in {x \in 1 .. n : read[x].locked}}
        /\ num' = n /\ lockedCount' = Cardinality({x \in 1 .. n : read[x].locked})
        /\ \E c \in IF autoTake /\ n > 0
                    THEN Owned(owner, read[n].text)
                         \cup (IF n > 1 THEN {<<Self, NoText>>} ELSE {})
                    ELSE {clip} :
             owner' = c[1] /\ selected' = c[2]
        /\ pc' = IF Len(file.records) > n \/ file.torn THEN "toomuch" ELSE "up"
        /\ UNCHANGED <<autoTake, poll, marks, disk>>

\* "Some items from history will be lost.  May I continue?"
Continue ==
    /\ pc = "toomuch"
    /\ pc' = "up"
    /\ UNCHANGED <<list, clip, poll, conf, marks, disk>>

Decline ==
    /\ pc = "toomuch"
    /\ Vanish
    /\ UNCHANGED disk

----------------------------------------------------------------------------
(* The other applications. *)

Copy ==
    /\ owner' \in Copyable \ {owner}
    /\ UNCHANGED <<pc, list, selected, poll, conf, marks, disk>>

Receive == ReceiveNothing \/ ReceiveOld \/ ReceiveNew \/ ReceiveAsked
User    == \/ Activate \/ PrevItem \/ ToggleMarks \/ Answered
           \/ \E t \in Texts : Lock(t) \/ Unlock(t)
Session == \/ Exit \/ Stop \/ Abort \/ Continue \/ Decline
           \/ \E k \in KeepSizes : Start(k)

Next == Ask \/ Receive \/ User \/ Save \/ Session \/ Copy

Spec == Init /\ [][Next]_vars

----------------------------------------------------------------------------
(* Properties. *)

TypeOK ==
    /\ pc \in {"down", "toomuch", "up"}
    /\ keep \in KeepSizes /\ largest \in KeepSizes /\ autoTake \in BOOLEAN
    /\ items \in Seq(Texts) /\ locked \subseteq Texts
    /\ num \in Nat /\ lockedCount \in Nat
    /\ selected \in Texts \cup {NoText, Dangling}
    /\ owner \in Copyable \cup {NoText, Self}
    /\ old \in Texts \cup {NoText}
    /\ replies \in Seq(Texts \cup {NoText}) /\ Len(replies) <= MaxReplies
    /\ dialogs \in Seq(Texts) /\ Len(dialogs) <= MaxDialogs
    /\ clipLock \in BOOLEAN /\ clipIgnore \in BOOLEAN
    /\ file \in [records : Seq(Items), torn : BOOLEAN]

\* The two counters menu_item_add and the lock button decide by are those of
\* the list, which holds no text twice and no more than -n asks for.
CountersAgree ==
    /\ num = Len(items)
    /\ locked \subseteq Kept /\ lockedCount = Cardinality(locked)
    /\ \A i, k \in 1 .. Len(items) : items[i] = items[k] => i = k
    /\ num <= keep

\* "There must remain at least one unlocked item when menu is full!": what
\* g_assert in menu_item_add relies on is so unless the program has been
\* started with less room than in an earlier session.
RoomForNew == (num = keep /\ Kept \subseteq locked) => keep < largest

\* With auto_take_up, what wmcliphist offers to other applications is its
\* newest item, never one that has been freed.
OfferedIsNewest == autoTake /\ selected # NoText => items # << >> /\ selected = Head(items)

\* "locked items will not be overriden by new clipboard operations": nothing
\* but the end of the session takes a locked item off the list.
LockedStay ==
    [][pc = "up" /\ pc' = "up" => locked \subseteq ToSet(items')]_vars

\* "saves history to file on exit (and loads it on start)": a session begins
\* with the list of the last save, its order and its locks, if it has room for
\* it and the file was written out.
Restored ==
    [][pc = "down" /\ pc' = "up" /\ saved # NoText =>
         items' = saved.items /\ locked' = saved.locked]_vars
============================================================================
