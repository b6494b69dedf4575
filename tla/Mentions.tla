------------------------------ MODULE Mentions ------------------------------
(***************************************************************************)
(* A note of a thread that mentions people: the page picks them by name from  *)
(* suggestions and sends keys, the server resolves the keys, stores who is    *)
(* mentioned and tells those who were not mentioned before. The author has    *)
(* the thread open on several pages.                                         *)
(***************************************************************************)
EXTENDS Naturals, FiniteSets

CONSTANTS
  Users,      \* whom the author may mention
  Names,      \* full names
  LocalOf,    \* what stands before the @ of a user's address
  Typed,      \* bound: whose address the author may write as a key; no other is written
  Pages,
  MaxChanges, \* bounds changes of users
  MaxSaves    \* bounds saves

MentionsAssumption ==
  /\ DOMAIN LocalOf = Users /\ Typed \subseteq Users
  /\ "@" \notin Names
  /\ MaxChanges \in Nat
  /\ MaxSaves \in Nat

VARIABLES
  user,    \* full name, and whether they may read the mailbox and are active
  note,
  page,    \* the editor, and the people it knows
  request, \* of a page
  told,    \* how often a user was told
  \* history:
  added,   \* how often a save mentioned a user who was not mentioned
  doubled, \* users that two saves were about to mention at once, or an edit named twice
  untold,  \* users whose message failed
  moved,   \* pages, and the note, that have keys from before a change of a user
  changes, saves

vars == <<user, note, page, request, told, added, doubled, untold, moved, changes, saves>>

\* A key is a name, an address' local part, or both; the editor shows names.
Keys == {<<n>> : n \in Names} \cup {<<LocalOf[u]>> : u \in Users}
          \cup {<<n, LocalOf[u]>> : n \in Names, u \in Users}
Shown(n) == <<"@", n>>
Tokens == Keys \cup {Shown(n) : n \in Names}
NoKey == <<>>
Unknown == [key |-> NoKey, name |-> "none"]
NoNote == [state |-> "none", body |-> {}, mentions |-> [u \in Users |-> NoKey], meant |-> {},
           named |-> {}]
Idle == [pc |-> "idle", body |-> {}, finds |-> [u \in Users |-> NoKey], had |-> {},
         times |-> [u \in Users |-> 0], meant |-> {}, named |-> {},
         todo |-> [u \in Users |-> 0]]
Blank == [text |-> {}, directory |-> [u \in Users |-> Unknown], picked |-> {}, edits |-> FALSE]

TypeOK ==
  /\ user \in [Users -> [name : Names, reads : BOOLEAN]]
  /\ note \in [state : {"none", "there", "gone"}, body : SUBSET Keys,
               mentions : [Users -> Keys \cup {NoKey}], meant : SUBSET Users,
               named : SUBSET Users]
  /\ page \in [Pages -> [text : SUBSET Tokens, picked : SUBSET Users, edits : BOOLEAN,
                directory : [Users -> {Unknown} \cup [key : Keys, name : Names]]]]
  /\ request \in [Pages -> [pc : {"idle", "sent", "write", "tell"}, body : SUBSET Keys,
                  finds : [Users -> Keys \cup {NoKey}], had : SUBSET Users,
                  times : [Users -> 0..2], meant : SUBSET Users, named : SUBSET Users,
                  todo : [Users -> 0..2]]]
  /\ told \in [Users -> 0..(2 * MaxSaves)] /\ added \in [Users -> 0..MaxSaves]
  /\ {doubled, untold} \subseteq SUBSET Users
  /\ moved \subseteq Pages \cup {"note"}
  /\ changes \in 0..MaxChanges /\ saves \in 0..MaxSaves

Init ==
  /\ user \in [Users -> [name : Names, reads : {TRUE}]]
  /\ note = NoNote
  /\ page = [p \in Pages |-> Blank]
  /\ request = [p \in Pages |-> Idle]
  /\ told = [u \in Users |-> 0] /\ added = [u \in Users |-> 0]
  /\ doubled = {} /\ untold = {} /\ moved = {} /\ changes = 0 /\ saves = 0

(***************************************************************************)
(* Keys                                                                     *)
(***************************************************************************)
Readers == {u \in Users : user[u].reads}
Namesakes(u) == {v \in Readers : user[v].name = user[u].name}

\* Namesakes are told apart by their addresses; those who cannot be have no key.
Mentionable ==
  {u \in Readers : \A v \in Namesakes(u) \ {u} : LocalOf[v] # LocalOf[u]}
MentionKey(u) ==
  IF Namesakes(u) = {u} THEN <<user[u].name>> ELSE <<user[u].name, LocalOf[u]>>
KeysOf(u) == {MentionKey(u), <<LocalOf[u]>>}

\* A key of two people resolves to neither.
Resolves(k, u) == {v \in Mentionable : k \in KeysOf(v)} = {u}
ResolveMentions(body) ==
  [u \in Users |-> IF \E k \in body : Resolves(k, u) THEN MentionKey(u) ELSE NoKey]
\* One entry for each key that resolves: a user has two keys.
Entered(body, u) == Cardinality({k \in body : Resolves(k, u)})
Found(keys) == {u \in Users : keys[u] # NoKey}

(***************************************************************************)
(* The page                                                                 *)
(***************************************************************************)
Editing(p) == request[p].pc = "idle"
Write(p, fields) == page' = [page EXCEPT ![p] = fields]
Others == <<user, note, told, added, doubled, untold, changes, saves>>
Rest == <<Others, moved>>

\* The suggestions name everybody who matches, and the author picks one.
Pick(p, u) ==
  /\ Editing(p) /\ u \in Mentionable
  /\ page[p].edits \/ note.state = "none"
  /\ \E others \in SUBSET (Mentionable \ {u}) :
       Write(p, [page[p] EXCEPT
         !.text = @ \cup {Shown(user[u].name)},
         !.picked = @ \cup {u},
         !.directory = [v \in Users |-> IF v \in others \cup {u}
                          THEN [key |-> MentionKey(v), name |-> user[v].name] ELSE @[v]]])
  /\ moved' = IF page[p].text = {} THEN moved \ {p} ELSE moved
  /\ UNCHANGED <<request, Others>>

\* The author writes a key.
Type(p, u) ==
  /\ Editing(p) /\ u \in Typed
  /\ page[p].edits \/ note.state = "none"
  /\ Write(p, [page[p] EXCEPT !.text = @ \cup {<<LocalOf[u]>>}])
  /\ moved' = IF page[p].text = {} THEN moved \ {p} ELSE moved
  /\ UNCHANGED <<request, Others>>

Erase(p) ==
  /\ Editing(p)
  /\ \E t \in page[p].text :
       Write(p, [page[p] EXCEPT !.text = @ \ {t},
                   !.picked = {u \in @ : t # Shown(page[p].directory[u].name)}])
  /\ UNCHANGED <<request, Rest>>

Entries(p) == {page[p].directory[u] : u \in Users} \ {Unknown}

\* A name that is shown becomes the key of somebody of that name.
ShownNames(p) == {n \in Names : Shown(n) \in page[p].text}
Replacements(p) ==
  {key \in [ShownNames(p) -> {e.key : e \in Entries(p)}] :
     \A n \in ShownNames(p) : [name |-> n, key |-> key[n]] \in Entries(p)}
Serialized(p, key) == (page[p].text \cap Keys) \cup {key[n] : n \in ShownNames(p)}

\* The page knows one person of the name, whose name and address are no other reader's
\* address, and no user changed since.
IsClear(p, u) ==
  /\ p \notin moved
  /\ u \in Readers /\ user[u].name \in ShownNames(p)
  /\ \A v \in Users \ {u} : page[p].directory[v].name # user[u].name
  /\ \A v \in Readers \ {u} : LocalOf[v] \notin {user[u].name, LocalOf[u]}

\* The name is shown, by which the page may know others too, a key of theirs is written,
\* or the note that is edited mentions them.
MayBeNamed(p, u) ==
  \/ p \in moved \/ u \in Found(note.mentions) \/ KeysOf(u) \cap page[p].text # {}
  \/ \E n \in ShownNames(p) : n \in {user[u].name, page[p].directory[u].name}

Save(p) ==
  /\ Editing(p) /\ page[p].text # {} /\ saves < MaxSaves
  /\ page[p].edits \/ note.state = "none"
  /\ \E key \in Replacements(p) :
       request' = [request EXCEPT ![p] =
         [Idle EXCEPT !.pc = "sent", !.body = Serialized(p, key)]]
  /\ saves' = saves + 1
  /\ UNCHANGED <<user, note, page, told, added, doubled, untold, moved, changes>>

\* A note is edited with the names of those it mentions in the place of their keys.
EditNote(p) ==
  /\ Editing(p) /\ note.state = "there" /\ ~page[p].edits
  /\ LET mentioned == Found(note.mentions)
         of(k) == {u \in mentioned : note.mentions[u] = k}
     IN  Write(p, [text |-> {k \in note.body : of(k) = {}}
                              \cup {Shown(user[u].name) : u \in
                                      {v \in mentioned : note.mentions[v] \in note.body}},
                   picked |-> {u \in mentioned : note.mentions[u] \in note.body},
                   edits |-> TRUE,
                   directory |-> [u \in Users |-> IF u \in mentioned
                                    THEN [key |-> note.mentions[u], name |-> user[u].name]
                                    ELSE page[p].directory[u]]])
  /\ moved' = IF "note" \in moved THEN moved \cup {p} ELSE moved \ {p}
  /\ UNCHANGED <<request, Others>>

(***************************************************************************)
(* The server                                                               *)
(***************************************************************************)
Creates(p) == ~page[p].edits

\* The note is read, and then the keys are resolved.
Resolve(p) ==
  LET r == request[p] IN
  /\ r.pc = "sent"
  /\ request' = [request EXCEPT ![p] =
       IF Creates(p) \/ note.state = "there"
         THEN [r EXCEPT !.pc = "write", !.finds = ResolveMentions(r.body),
                        !.times = [u \in Users |-> Entered(r.body, u)],
                        !.had = IF Creates(p) THEN {} ELSE Found(note.mentions),
                        !.meant = {u \in page[p].picked : IsClear(p, u)},
                        !.named = {u \in Users : MayBeNamed(p, u)}]
         ELSE Idle]
  /\ UNCHANGED <<page, Rest>>

\* Requests that are about to mention u beside r's.
AlsoAdding(p, u) ==
  \E q \in Pages \ {p} : /\ request[q].pc = "write"
                         /\ u \in Found(request[q].finds) \ request[q].had

\* The note and whom it mentions are written at once, each user once. A new note tells
\* those it has stored, and an edit every entry of a user who was not mentioned.
Store(p) ==
  LET r == request[p]
      new == Found(r.finds)
      news == [u \in Users |-> IF u \notin new \ r.had THEN 0
                               ELSE IF Creates(p) THEN 1 ELSE r.times[u]]
  IN
  /\ r.pc = "write"
  /\ IF Creates(p) THEN note.state = "none" ELSE note.state = "there"
  /\ note' = [state |-> "there", body |-> r.body, mentions |-> r.finds, meant |-> r.meant,
              named |-> r.named]
  /\ added' = [u \in Users |-> IF u \in new \ Found(note.mentions) THEN added[u] + 1
                               ELSE added[u]]
  /\ doubled' = doubled \cup {u \in new \ r.had : \/ AlsoAdding(p, u) \/ news[u] > 1
                                                  \/ u \in Found(note.mentions)}
  /\ request' = [request EXCEPT ![p] = [r EXCEPT !.pc = "tell", !.todo = news]]
  /\ moved' = IF p \in moved THEN moved \cup {"note"} ELSE moved \ {"note"}
  /\ UNCHANGED <<user, page, told, untold, changes, saves>>

\* A note that was deleted, or stored by the other page.
StoreFails(p) ==
  /\ request[p].pc = "write"
  /\ note.state # IF Creates(p) THEN "none" ELSE "there"
  /\ request' = [request EXCEPT ![p] = Idle]
  /\ UNCHANGED <<page, Rest>>

Tell(p, u) ==
  /\ request[p].pc = "tell" /\ request[p].todo[u] > 0
  /\ request' = [request EXCEPT ![p].todo[u] = @ - 1]
  /\ \/ told' = [told EXCEPT ![u] = @ + 1] /\ UNCHANGED untold
     \/ untold' = untold \cup {u} /\ UNCHANGED told
  /\ UNCHANGED <<user, note, page, added, doubled, moved, changes, saves>>

\* The answer empties the editor.
Saved(p) ==
  /\ request[p].pc = "tell" /\ request[p].todo = Idle.todo
  /\ request' = [request EXCEPT ![p] = Idle]
  /\ Write(p, [page[p] EXCEPT !.text = {}, !.picked = {}, !.edits = FALSE])
  /\ UNCHANGED Rest

DeleteNote ==
  /\ note.state = "there"
  /\ note' = [NoNote EXCEPT !.state = "gone"]
  /\ UNCHANGED <<user, page, request, told, added, doubled, untold, moved, changes, saves>>

\* A user's profile, account or access changes.
Change(u) ==
  /\ changes < MaxChanges
  /\ changes' = changes + 1
  /\ \E n \in Names, reads \in BOOLEAN :
       user' = [user EXCEPT ![u] = [name |-> n, reads |-> reads]]
  /\ moved' = {p \in Pages : page[p].text # {}} \cup {"note"}
  /\ UNCHANGED <<note, page, request, told, added, doubled, untold, saves>>

Next ==
  \/ \E p \in Pages : \/ Erase(p) \/ Save(p) \/ EditNote(p) \/ Resolve(p) \/ Store(p)
                      \/ StoreFails(p) \/ Saved(p)
                      \/ \E u \in Users : Pick(p, u) \/ Type(p, u) \/ Tell(p, u)
  \/ DeleteNote
  \/ \E u \in Users : Change(u)

Spec == Init /\ [][Next]_vars

\* Whom the author picked is mentioned, as long as their name and address were theirs alone
\* and nobody changed until the server resolved the keys (serializeNoteTextForApi, getMentionableUsers,
\* resolveMentionedUsers).
PickedAreMentioned == note.meant \subseteq Found(note.mentions)

\* Whoever a note mentions was told of it, is about to be, or their message failed
\* (createNote, updateNote, dispatchMentionNotifications).
MentionedAreTold ==
  \A u \in Found(note.mentions) :
    told[u] > 0 \/ u \in untold \/ \E p \in Pages : request[p].todo[u] > 0

\* Nobody is told more often than a save mentioned them anew, unless two saves were about
\* to do so at the same time, or an edit named them by both their keys (updateNote,
\* newlyAddedMentions: resolveMentionedUsers has one entry for each key).
ToldOncePerMention == \A u \in Users \ doubled : told[u] <= added[u]

\* Nobody is mentioned whose name was not shown nor a key of theirs written, if no user changed until the server
\* resolved the keys (resolveMentionedUsers leaves out a key of two users).
MentionedWereNamed == Found(note.mentions) \subseteq note.named
=============================================================================
