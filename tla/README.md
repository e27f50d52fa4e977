# purple-matrix in TLA+

purple-matrix is a protocol plugin that teaches libpurple (Pidgin, Finch) to
speak Matrix. It has no threads: everything runs in callbacks of libpurple's main
loop, each to its end. What makes it hard is the order in which those callbacks
come: answers to HTTP requests, errors, the user's actions, the end of a
connection and its restart. The conversation (`PurpleConversation`) with its tables and its queue
outlives the connection, the connection outlives no process, and some requests
outlive both. The models are about that.

Seven modules model the code; two are abstract specifications, one that the first
of them is shown to implement, one that three of them are; eight hold proofs.

| module | what | checked by | proved in |
|---|---|---|---|
| `SendQueue` | outbound side of a room | `sendqueue_core`, `_media`, `_shared` | `SendQueueProofs` |
| `OutboundFifo` | abstract: a FIFO channel | as the property `ImplementsFifo` | `SendQueueProofs` |
| `RoomState` | state events, members, title of a room | `room_state`, `room_aliases` | `RoomStateProofs` |
| `Connection` | login, sync loop, restarts | `conn_sync`, `_resync`, `_prompt` | `ConnectionProofs` |
| `SyncLoop` | abstract: a loop that passes nothing over | as the property `ImplementsSyncLoop` | `SyncLoopProofs`; for the three loops in `ConnectionProofs`, `ChatsProofs`, `EncryptionProofs` |
| `Chats` | invitations, joining, leaving, conversations | `chats` | `ChatsProofs` |
| `Encryption` | reading encrypted rooms | `enc_read` | `EncryptionProofs` |
| `KeyUpload` | one-time keys and their uploads | `key_upload` | `KeyUploadProofs` |
| `Api` | a request and the parsing of its answer | `api_requests` | `ApiProofs` |

The modules `MC...` name the model values, the symmetry sets and the sets of
inputs for TLC. A definition whose name has an underscore is a mutated
form of the definition after it, a plausible bug; no action uses it. It shows
that the property it was written for can fail.

## Inventory

### Outbound queue of a room (`matrix-room.c`)

*State*: the list `PURPLE_CONV_DATA_EVENT_QUEUE`; the slot
`PURPLE_CONV_DATA_ACTIVE_SEND`, which points to the running request and is both
the guard against a second send and the handle by which leaving cancels it; the
reference a queued image holds in libpurple's image store.
*Operations*: `_enqueue_event`, `_send_queued_event`, `_send_image_hook`, the
three callbacks of a send and of an upload, `_handle_incoming_media` with its
download callbacks, `matrix_room_leave_chat`, closing and reopening the account, and
closing the window meanwhile, of which the plugin hears nothing.
*Hard*: incoming attachments use the same slot; an error leaves the event queued
and starts nothing; a failed request may have arrived; the account may be closed,
and its `MatrixConnectionData` freed, while requests run.
*Correct when*: nothing typed is lost, repeated or overtaken; one send runs at a
time; no callback finds its data gone; the slot never points to a freed request;
sending does not stop without a failure; an image lives as long as its upload.

### Room state, members, title (`matrix-statetable.c`, `matrix-roommembers.c`, `matrix-room.c`, `matrix-sync.c`)

*State*: the state table; the member table with three lists of changes not yet
told to libpurple, and per member the name under which libpurple knows it
(`opaque_data`); the flag `NEEDS_NAME_UPDATE`; the title.
*Operations*: the state array and the timeline of a response
(`matrix_sync_room`, which runs twice over each response), `_on_state_update`,
`matrix_roommembers_update_member`, `matrix_room_complete_state_update` with
`_handle_new_members`, `_handle_renamed_members`, `_handle_left_members`,
`_update_room_alias`.
*Hard*: the lists are handled in a fixed order whatever the order of the events;
events are seen twice in a response, and again in the next one where a
`next_batch` was missing; old values are read from a table that is being
changed; the title is put off to the end.
*Correct when*: the three assertions hold; the user list is that of the room; the
title is one that the room's state gives.

### Connection, login, sync loop (`matrix-connection.c`, `matrix-sync.c`, `libmatrix.c`)

*State*: `MatrixConnectionData` (the token, the active `/sync`), the settings
kept with the account (token, `next_batch`, `skip_old_messages`), the set of
conversations.
*Operations*: whoami, password login and its prompt, `_start_sync`,
`_sync_complete`, `_sync_error`, leaving a room, closing.
*Hard*: whether a full state is needed is guessed from `next_batch` and from the
existence of any conversation; `next_batch` is kept after a response has been
handled and saved by libpurple later; a request other than the sync is not
cancelled when the connection closes; leaving frees the room before the answer.
*Correct when*: tables are complete; skipped messages stay skipped; the loop
never stops while connected; logging in ends; a failed `/leave` is resynced.

### End-to-end encryption (`matrix-e2e.c`, `matrix-sync.c`)

*State*: the `OlmAccount` with its one-time keys, in memory and as a string in the
account's settings; Olm sessions with other devices, in `olm_session_hash` and in
the sqlite table `olmsessions`; the keys of rooms (inbound Megolm sessions), in
memory, hung off the conversations.
*Operations*: `matrix_e2e_get_device_keys`, `matrix_e2e_decrypt_d2d` (Olm: brings
room keys), `matrix_e2e_decrypt_room` (Megolm: reads messages),
`matrix_e2e_cleanup_connection`, decrypting attachments.
*Hard*: three stores that are written at different times, one of them some
seconds later by libpurple; a restart brings messages back that the database has
seen; a room key must find its conversation and be there before the messages
it is for; what was acknowledged does not come again; the table takes one session
of a device although the code expects several.
*Correct when*: a message whose key was sent to this device is read; nothing is
decrypted twice.

### One-time keys (`matrix-e2e.c`)

*State*: the one-time keys of the `OlmAccount` and which of them are marked as
published, in memory, in the settings and in the saved settings; uploads on
their way; on the homeserver the keys it has for other devices.
*Operations*: `matrix_e2e_handle_sync_key_counts`, `send_one_time_keys`,
`key_upload_callback`, the removal of a key by the first message made with it.
*Hard*: every answer to `/sync` and to an upload may start an upload, whether or
not another is under way; keys are stored only after the upload is answered;
libolm's list is limited and drops the oldest key; a lost answer makes the same keys
be sent again.
*Correct when*: a key the homeserver gives out is in the account; a key is given
out once; the stock is filled again; uploads come to an end.

### Joining rooms and invites (`matrix-sync.c`, `matrix-connection.c`, `libmatrix.c`, `matrix-room.c`)

*State*: on the homeserver what the account is in each room; here the conversation
of each room (in the chats of the connection, or left), the entry in the buddy
list, invitations before the user, requests on their way.
*Operations*: the `rooms.join` and `rooms.invite` branches of `matrix_sync_parse`
(with `_ensure_blist_entry`, `_handle_invite`), `matrixprpl_join_chat`, `_reject_chat`, `_chat_leave` and
the callbacks of `/join`.
*Hard*: a response may be older than the request whose effect it lacks; other
devices and users move the account too, which the code does not look at
(`rooms.leave` is ignored); a conversation counts as being in the room; requests are
carried out in any order.
*Correct when*: conversations are those of the rooms the account is in; the
user's last wish comes true; no invitation and no message is lost.

### Requests to the homeserver (`matrix-api.c`)

*State*: per request a `MatrixApiRequestData`; while its answer is read a
`MatrixApiResponseParserData`.
*Operations*: `matrix_api_start_full` (and one function per endpoint, which chooses the
callbacks), `matrix_api_cancel`, `matrix_api_complete` with the callbacks of
http_parser, the default handlers `matrix_api_error` and `matrix_api_bad_response`.
*Hard*: names, values and bodies come in fragments; an answer may end anywhere;
there are six ways for a request to end and three callbacks, one of which has to
be called once; errors are fatal to the account or not, and some success
callbacks report errors themselves; a room may keep the handle of a freed request.
*Correct when*: each request is answered once, in the end, and with what the
homeserver wrote; the account is given up only after what the homeserver wrote.

### Not modelled yet

* *Typing notifications* (`_on_typing`, `matrix_room_send_typing`): compares old
  and new typists with an inverted test and changes the array of the state table
  while it reads it. Next module.
* *Timeline messages* (`matrix_room_handle_timeline_event`): rendering of one
  event into one line, and the transaction ids by which echoes are known.
* *Encrypted attachments* (`matrix_e2e_decrypt_media`): a pure conversion.
* URLs, bodies and header lines of requests (`matrix-api.c`): no state. One
  defect is there: the content type that `matrix_api_upload_keys` adds has no line
  end (`matrix-api.c:1086`) and runs into the next header.

### Not modelled at all

JSON accessors (`matrix-json.c`: pure; the models take a missing field as
`None`), the tables of function pointers, menus and dialogs (`libmatrix.c`:
no state), `Makefile*`.

### How the parts interact

A response to `/sync` arrives at `_sync_complete` (Connection), which hands it to
`matrix_sync_parse`, which creates conversations and, per room, feeds events to
the state table, whose callback feeds the member table, and at last completes the
update (RoomState); timeline events of type `m.room.message` may start downloads
in the room's slot (SendQueue). Between the two passes over the rooms
`matrix_sync_parse` handles the messages to the device (Encryption), for which the
first pass has made the conversations and on which the second relies. Errors of any request go to
`purple_connection_error_reason`, after which libpurple closes the connection;
the conversations stay. Leaving a room touches all three: it cancels the send,
frees the tables, and its request may fail after that.

The modules are separate because their shared state is small: SendQueue
needs only whether the connection is up, about to fail, or gone (`link`);
Connection needs only *which* versions of a room's state the tables have, and
that is what handling a response does to them (`HandleReply`); RoomState is one
room's half of `HandleReply`, taken apart into its steps; Encryption needs the
order of those passes, the position in the stream and what is saved when, and has
a sync loop of its own that is `Connection`'s without logging in, failing answers
and leaving rooms. Chats has that loop too, for the rooms whose membership
changes, where Connection has the ones the account stays in; the position it starts from
(`since`) is never lost there, for that is Connection's subject. What the three loops
have in common is SyncLoop. KeyUpload takes
the counts from the end of `HandleReply` and the removal of a key from
Encryption's `DeviceMessage`; in Encryption every session has its one-time key, and
KeyUpload says when that is so. Every request of the other modules is one
of Api's: each has its own actions for "it can't be started", "it fails", "it is
answered", of which Api shows that one happens, once.

## SendQueue

| model | code |
|---|---|
| `queue`, `active` | `PURPLE_CONV_DATA_EVENT_QUEUE`, `PURPLE_CONV_DATA_ACTIVE_SEND` |
| `requests` | each allocated `MatrixApiRequestData`: its kind, event, and whether its connection was freed (`stale`) |
| `link` | the `PurpleConnection`: up, an error reported (`failing`, or `dying` when `wants_to_die`), gone |
| `plugRefs`, `uiHolds` | references on an image, of the plugin and of the conversation window |
| `sent`, `log` | what reached the network; what the homeserver took, once per transaction id |
| `failures`, `failed` | history: how often something failed; the images that an attempt has failed for |
| `fault` | an access to freed or missing data has killed the process |
| `Enqueue` | `matrix_room_send_message`, `matrix_room_send_image` -> `_enqueue_event` -> `_send_queued_event` |
| `SendComplete`, `SendFailed` | `_event_send_complete`, `_event_send_error`, `_event_send_bad_response` |
| `UploadComplete`, `UploadNoUri`, `UploadFailed` | `_image_upload_*` |
| `MediaArrives`, `DownloadEnds` | `_handle_incoming_media`, `_image_download_*` |
| `Leave` | `matrix_room_leave_chat` |
| `CloseWindow` | libpurple: the window of an account that is not connected is closed; the conversation is freed, its requests are not cancelled |
| `CallbackOnFreedRoom` | a callback that comes although the conversation is freed |
| `Disconnect`, `Reconnect` | `matrixprpl_close`; `matrixprpl_login` |

An address may be used again after it was freed: `Handles` is the set of
addresses, and `active` keeps an address whatever happens to what was there. A
read of freed memory is undefined behaviour: the action may set `fault`, or go on
as if nothing had happened. A message that has images in it is several `Enqueue`
steps. The homeserver's `sent` never shrinks: a copy still on its way may
arrive at any later time.

*Bounds.* `MaxFailures` bounds failed requests plus unprovoked disconnections;
with 3 (2 in the run with attachments) a message can fail, be retried on another
connection, and fail again behind it. Three events with one image among them give every order
of text, image and text. Two addresses suffice without attachments, for one
request runs at a time, and leave one that may be used again; with attachments
three let downloads run beside a send.

*Runs.* `sendqueue_core`: everything but attachments, the refinement and progress
under fairness. `sendqueue_media`: all inputs, for the properties that survive the
shared slot. `sendqueue_shared` (a violation): see Findings.

What is excused, and only that. `NoBadAccess`: a callback that meets a freed
conversation is one of a window closed offline, while a request that
`matrixprpl_close` had not cancelled was still out (`libmatrix.c:119`); until the code
keeps such a handle, nothing can cancel it. `SlotGuardsSend` leaves that room out too, for
its slot went with the conversation. `UploadKeepsImage` holds through failures
and retries: an attempt that fails, before or after the upload, drops its reference and
leaks none; but the next attempt at the same image takes no new one and
drops another all the same, which may be the window's, so that the property says "at most"
there. `SlotIsLive`: with incoming attachments, or an upload that is answered
without `content_uri`, the slot does keep a freed request (`matrix-room.c:671`, `:489`);
`sendqueue_core` has neither, and shows that nothing else makes it so.

*Not modelled here*: the failure of the `/leave` request (it is in Connection);
two queued events sharing one image; the conversation that is made when a room is
opened again after leaving or closing (another instance of the module); the
sender's name that a download borrows from the member table.

## RoomState

| model | code |
|---|---|
| `table` | `MatrixRoomStateEventTable` |
| `member`, `newMembers`, `renamedMembers`, `leftMembers` | `MatrixRoomMemberTable` |
| `opaque` | `opaque_data`, the name libpurple has for the member |
| `listed` | for each name, how often libpurple was told to add it less how often to remove it |
| `needsName`, `title` | `PURPLE_CONV_FLAG_NEEDS_NAME_UPDATE`, the chat's alias and title |
| `truth`, `pending`, `seen` | the homeserver's state, what it has not yet put in a response, the state of the last one |
| `SyncArrives` .. `ResponseDone` | `matrix_sync_parse`, `matrix_sync_room` |
| `StateEvent`, `TimelineEvent` | `_parse_room_event` -> `matrix_statetable_update` -> `_on_state_update` |
| `HandleNewMember` .. `UpdateDone` | `matrix_room_complete_state_update` |

A response is handled in one callback in the code. The model takes it apart into
one step per event and per member told, so that intermediate states are visible;
nothing else may happen meanwhile (`ServerChanges` and `SyncArrives` wait for
`phase = "idle"`, as the main loop does).

The state array has one event per key, which is what the homeserver sends: two
events of one member in one array could trip the assertion at
`matrix-room.c:1244`. In the timeline a key may occur more than once, and there
each event is completed on its own. `m.room.aliases`, in the code one key per
server, is one key. An event whose fields are missing is dropped
(`matrix-statetable.c:92-96`), and is not modelled; an empty `m.room.name` is
`None`. A room that is left while a response is handled cannot be: both
are callbacks.

*Bounds.* `MaxChanges` bounds the state events of the room. With 3 a user joins,
leaves and comes back, or two join before one leaves, or the room gets a name
that is taken away, in every division of those events into responses, arrays and
timelines, each response possibly handled twice. There are up to three other
members, so that each branch of `_get_room_name_from_members` is met; bans and
two different names are in the proofs only.

## Connection

| model | code |
|---|---|
| `gc` | `PurpleConnection`: its state, and whether an error was reported |
| `step` | what the connection waits for: whoami, login, the prompt, a sync, nothing |
| `since`, `full`, `reply` | the active `/sync` request and its answer |
| `account`, `disk` | account settings in memory, and as libpurple last wrote them |
| `convs`, `table` | conversations, and which version of each state key their tables have |
| `leaving`, `orphans` | requests that are out; those whose connection is freed |
| `Login`, `WhoamiCompleted`, `WhoamiFails`, `PromptAnswered`, `LoginCompleted`, `LoginFails` | `matrix_connection_start_login` and its callbacks |
| `SyncComplete`, `SyncWithoutBatch`, `SyncFails` | `_sync_complete`, `_sync_error`, `_sync_bad_response` |
| `Leave`, `LeaveFails` | `matrix_room_leave_chat`, the default error handlers |
| `UserCloses`, `ErrorCloses`, `OrphanEnds` | `matrixprpl_close` by the user or by libpurple; a callback on a freed connection |
| `Save`, `Restart`, `CloseWhileDown`, `ToggleSkip` | libpurple and the user: accounts.xml, the end of the process, a window closed offline, a setting |

A room's content is abstracted to versions: the position in the homeserver's
stream at which a key of the room was set. A response delivers a key if it is
newer than `since`, or all keys where `full_state` was asked or `since` is NULL.
A restart may happen at any time and goes back to what was saved. `_whoami_error`
reads a `MatrixConnectionData` as a `PurpleAccount`; the field at the place of the
password is `user_id`, which is NULL then, so it prompts, unless the process
dies of what follows.

*Bounds.* `MaxTroubles` bounds failures, disconnections, restarts and edits of
the account together; `MaxEvents` the positions of the stream. With two troubles a
response can be lost and the retry interrupted too. `conn_sync` has two positions,
one before and one after whatever goes wrong, in one room, with two keys for one
that is old while the other is new. Two rooms are needed for one that keeps
`needs_full_state_sync` off while the other is incomplete: `conn_resync` has them,
and the proofs have any number.

*Not modelled here*: joins and invites (in Chats), the upload of device keys that
`_start_sync` begins (in KeyUpload), timeline limits (a response holds all that is new), a
prompt that belongs to a dead connection (`PURPLE_CONNECTION_IS_VALID` drops
its answer), an address of a freed connection that is used again.

`TablesComplete` says nothing of a room that was left or closed and not fully
synced since (`dropped`): there it is false, which is what `conn_resync` shows.
`OnlyNewShown` excuses a lost `next_batch`: after a response without one, or a
restart before libpurple had saved it, the same messages come again.

## Encryption

| model | code |
|---|---|
| `stream`, `acked` | the homeserver: joins, room keys sent to this device, encrypted messages; what is deleted because it was acknowledged |
| `phase`, `since`, `full`, `upto`, `todo` | the `/sync` request, and how far its response is handled |
| `oa`; `account`, `disk` | the `OlmAccount`; the settings (`olm_account_keys`, `next_batch`, `skip_old_messages`) in memory and as saved |
| `memory`, `db` | `olm_session_hash`; the table `olmsessions` |
| `megolm` | `megolm_sessions_inbound` of each conversation, for each device |
| `opened`, `lost`, `missed` | history: decrypted on this connection, on an earlier one; messages that could not be read |
| `Connect` | `_start_sync`, `matrix_restore_e2e_account` |
| `RoomsPass`, `TimelinePass` | the two passes of `matrix_sync_parse` over the rooms; then `_start_next_sync` |
| `DeviceMessage` | `matrix_e2e_decrypt_d2d`, `decrypt_olm`, with `Known` (`find_olm_session`), `Updated` (`store_olm_session`, `update_olm_session`), `RoomKey` (`handle_m_room_key`), `Stored` (`matrix_store_e2e_account`) |
| `Readable` | `matrix_e2e_decrypt_room` |
| `Disconnect`, `Restart` | `matrix_e2e_cleanup_connection`; the end of the process at any point, also between the `INSERT` of a session and the first message it decrypts |
| `Save` | libpurple writes the account's settings |

A session stands for the one-time key it was made with: a device uses a new
one for each. All messages of a session are "prekey" messages, for this plugin
never answers over Olm; other types are ignored by the code too. A ratchet is the
set of messages it has decrypted, for it refuses those. A room key is the
position at which it was sent: it reads what was encrypted after that, so that
keeping the first key of a room (`RoomKey`) reads more than keeping the last.
Each device has one Megolm session for each room.

`KeyedMessagesRead` says which messages may be missed although their key was sent
before them, in terms of what was lost: the key was decrypted on an earlier
connection (room keys are in memory only), it came before the room was joined
(there was no conversation to keep it with), or its device already had another
Olm session. The last is a defect: `find_olm_session` and `store_olm_session` are
written for several sessions of a device, but the primary key of the table
(`matrix-e2e.c:1066`) takes one, so that the session is thrown away after its
one-time key was used up (`matrix-e2e.c:486`).

*Bounds.* `MaxSent` = 4 items in the stream: joining a room, a key, a message,
and one more of any kind before, between or after, in every division into
responses. `MaxTroubles` = 2: a message to the device can come again, and again
after that. Two rooms, for the keys of one and the conversation of the other; one
device, for devices meet nowhere but in `todo`; two sessions, of which the
table has room for one.

*Not modelled here*: making and uploading one-time keys (in KeyUpload; at the
start every session has its one-time key), failures of sqlite and libolm,
messages that are malformed or not what they claim to be, timelines with a limit, leaving
a room, a second account, whose connection when it closes frees the room
keys of all (`matrix-e2e.c:1228`).

## KeyUpload

| model | code |
|---|---|
| `oa`, `stored`, `disk` | the `OlmAccount` in memory (`conn->e2e->oa`), in the account's settings, as libpurple last saved them |
| `uploads` | requests to `/keys/upload`: their keys, `user_data` (`otk`), whether the homeserver has handled them, whether their connection still is (`own`) |
| `sync` | the active `/sync`, and the counts in its response |
| `offered`, `claimed`, `used` | the homeserver's keys; those given to a device that has not written yet; those written with |
| `HandleCounts` | `matrix_e2e_handle_sync_key_counts`, `send_one_time_keys` |
| `SyncComplete`, `KeyUploadCallback` | the two callers of it; the second marks the keys and stores the account first |
| `UploadFails`, `SyncFails` | the default error handlers, after which libpurple closes the connection |
| `FirstMessage`, `LaterMessage` | `decrypt_olm`, as far as the account is concerned |
| `Connect`, `Close`, `Crash`, `Save` | `matrix_e2e_get_device_keys`, `matrix_e2e_cleanup_connection`, the process, accounts.xml |

A key is its number in the order of making, which is all libolm looks at
when it drops the oldest one. Homeserver and libolm are external: the homeserver
takes up every key it is sent and does not know yet, also one that it had and gave away.
An algorithm without keys is counted as zero or not named; the code makes half
as many keys as the limit in the first case and all in the second.

Much can go wrong here that the code does nothing about. The history `mishaps`
names it, and each property says which mishaps it excuses: two uploads under way
at once; an upload without answer; a key dropped by libolm; settings lost before
they were saved. Without any of them disconnections, crashes, messages and
answers may still come in any order.

*Bounds.* `Max` = 2, so half of it is 1 and the list overflows with the
third key; `MaxUploads` = 2, for two to overlap (the bound delays a response);
`MaxClaims` = 1, for a key can be given away twice only if it is sent twice;
`MaxTroubles` = 1, at any step. 740,199 states.

*Not modelled here*: the making of the account and of its identity keys,
signatures, errors of libolm and sqlite, settings that belong to another device.

## Api

| model | code |
|---|---|
| `reqs` | each `MatrixApiRequestData`: its endpoint, whether it waits, how many callbacks were called |
| `p` | `MatrixApiResponseParserData` |
| `left`, `whole` | what http_parser has still to hand over of the response; history: all of it |
| `told` | history: the last answer to a caller |
| `slot` | `PURPLE_CONV_DATA_ACTIVE_SEND` of a room: the handle by which leaving cancels |
| `Endpoint` | the callbacks that each `matrix_api_...` is given by its callers: whether they report an error, and what each success callback makes of JSON and of anything else (`SyncCompleted`, `LoginCompleted`, ...) |
| `Start`, `StartFails`, `Cancel` | `matrix_api_start_full`; `matrix_api_cancel`, called by `_cancel_event_send` |
| `FetchFails`, `ResponseArrives`, `Finish` | `matrix_api_complete` |
| `HandleHeaderField` .. `HandleMessageComplete` | the callbacks that are given to http_parser |
| `ApiError`, `ApiBadResponse` | the default handlers, with `purple_connection_error_reason` |
| `Close`, `Reconnect` | `matrixprpl_close`, `matrixprpl_login` |

A text is a sequence of tokens, so that a fragment can end between two. What
http_parser does is external: it hands over each fragment in order, trailers
after the body, and stops where the data end or are not HTTP ("short"). The
response is handled within one callback in the code; the model takes a step per
fragment, and nothing else happens meanwhile. Whether the first error reported is
fatal is in `gc`.

A good answer need not be a success. `_sync_complete` reports a fatal error where
there is no JSON or no `next_batch`, `_login_completed` where there is no token,
`_image_upload_complete` one that may be tried again where there is no
`content_uri`; whoami, login, the sync and uploads of keys go on to the encryption, whose
errors are fatal. What each may do is a set of outcomes, for the fields of a body are
not modelled.

`matrix_api_cancel` has no check. The sends, uploads and downloads of one room put their
handle into `slot`; an encrypted download, and an upload without `content_uri`, are
freed and leave it there. Leaving the room then cancels what is stale: the
invalid access or the assertion after it ends the process (`dead`), or a callback is
called once more (`twice`), also where the address belongs to another request by
then. `AnsweredOnce` excuses `twice`, and `SendQueue` says when the slot is not stale.
The handle of the sync is forgotten by each of its callbacks, and used by `Close`.

*Bounds.* Two requests at a time, two made in all, so that the second may have the
address of the first; four endpoints with between them each way of handling errors and each
outcome of a success. The 75 responses of `MCApi` have the content type in one
fragment and in two, an empty value, a second content type, trailers with one and
without, a header whose name is the end or the beginning of that of another, each body in every
division, codes on each side of each comparison, and all of it cut short.
148,471 states.

`FinalOnlyOnAnswer` says which steps may give the account up for good: those that end
the handling of a response that came whole and can be used, with a code that is
neither 429 nor over 500; no failure, no cut, no cancelling and no request that can't start
may. The comment in the code (`matrix-api.c:85`) promises the same of 500, but the test
is for what is over 500: an answer with 500 does end the account, and the property
allows it. See Findings.

`HeadersJoined`, `AnswersTrue` and `FinalOnlyOnAnswer` excuse a response with a Content-Type among its
trailers, which HTTP does not allow: the code takes one that another trailer
follows, for `_handle_header_field` completes a header whenever the next begins, and
not one that is the last.

*Not modelled here*: URLs, bodies and lines of requests; the limit on a
response's length; a proxy.

## Chats

| model | code |
|---|---|
| `log` | the homeserver's stream: invitations, joins, departures, messages |
| `since`, `reply` | `next_batch`; the position at which the response on its way was made |
| `conv` | the conversation of each room: none, one in `gc->buddy_chats`, or one left behind by a disconnection |
| `blist`, `prompt` | entries in the buddy list, invitations before the user |
| `out` | requests to join and to leave, sent, carried out or refused |
| `SyncComplete` | `matrix_sync_parse`: first pass over the joined rooms, invitations, timelines |
| `Connect` | `_start_sync`: whether there are conversations decides on `next_batch` and on when the connection is `CONNECTED` |
| `JoinChat`, `RejectChat`, `ChatLeave` | `matrixprpl_join_chat`, `_reject_chat`, `_chat_leave` with what they call |
| `Answered`, `RequestFails`, `OrphanEnds` | the callbacks of `/join` and `/leave`; requests of a connection that is gone |
| `Close`, `CloseWindow` | `matrixprpl_close` and what libpurple does with chats; a window closed offline |

When a connection is up again libpurple's UI joins the chats that were left by a
disconnection (this is what the comment in `matrixprpl_join_chat` expects);
`Connect` does so at once, before any response.

Histories say what the properties excuse. `stale`: rooms whose conversation may
be there although the account is out, because a response from before was
handled after the user had asked to leave, because somebody else or another
device took the account out, or because an old invitation was refused. `closed`:
rooms whose window was closed while the account stays in, offline or by a
`/leave` that came to nothing; joining such a room again changes nothing on the
homeserver, so no response brings it until something happens there. `crossed`:
rooms whose last request was made while its opposite was still on its way,
for each request has a connection of its own and the homeserver may take them in the
other order. `wish`: what the user last asked for, forgotten where a request was
refused, failed or lost, or where somebody else acted.

*Bounds.* Three events are an invitation, a join and a departure; or an
invitation, a removal and another one; or two rooms at once. `MaxTroubles` = 2: a
request is lost with its connection and the next one too. One request of a
kind and room at a time. 94,641 states.

*Not modelled here*: a room that is named by an alias when it is joined, rooms that
refuse those who are invited, limits of timelines, a crash between a response and
the saving of its position (in Connection).

## Fairness

`SendQueue!FairSpec`: each running request is answered or times out, and the
homeserver processes what it has received. `Connection!FairSpec`: the same for
whoami, login and sync, the user answers the prompt, and libpurple disconnects
after an error (a timer of zero seconds). libpurple's HTTP code has timeouts, and
the main loop runs every callback that is due, which justifies weak fairness. It
is weak fairness of "is answered somehow": nothing assumes that an answer is
good. Nobody has to type, connect, reconnect or leave. `KeyUpload!FairSpec`: the
homeserver handles uploads and answers them and `/sync`; nobody has to ask for a
key. `Api!FairSpec`: each request that was started is answered or fails, and
http_parser gets to the end of what it was given, which is one call in the code.
`Chats!FairSpec`: `/sync`, `/join` and `/leave` are carried out and answered, each
of the latter for itself, so that none waits for ever behind another. The liveness
properties are `SendingSettles`, `LoginSettles`, `CatchesUp`, `StockRefilled`,
`UploadsSettle`, `AnswersCome` and `JoinedShown`.

Deadlock is not checked: a room that was left, an account that is off and bounds
that are used up really are the end.

## Findings

* `sendqueue_shared`: `_handle_incoming_media` puts its download in the slot
  of the send in progress. Leaving then cancels the download, the send goes on and its
  callback runs with a freed conversation. (`matrix-room.c:894`)
* `room_aliases`: a change of `m.room.aliases` schedules no update of the title,
  for the code compares with `m.room.alias`. (`matrix-room.c:291`)
* `conn_prompt`: after a refused token the stored password is never tried.
  (`matrix-connection.c:322`)
* `conn_resync`: a failed `/leave` is not repaired by reconnecting while any other
  conversation is open. (`matrix-connection.c:190`)

One more disagreement has no run of its own: an answer with code 500 ends the
account for good, though the comment on the test, "Use a non-fatal error reason on HTTP 429
and 500", says otherwise: the test is `> 500`. (`matrix-api.c:86`) `Api` models what the
code does.

Other defects met while modelling are in the models, as nondeterministic faults
(`freedConn`, `freedRequest`, `freedMedia`, `noGc`, `dead`), as mishaps
(`KeyUpload`) or as histories that properties name (`Chats`), and are listed as
hazards in `PROJECT.json`:

* A JSON answer of length zero ends the process: json-glib refuses it without
  setting the error that is then read. (`matrix-api.c:252`)
* A send or an upload that survives closing the account calls back on a freed
  conversation when its window was closed meanwhile. (`libmatrix.c:119`)
* The slot keeps a freed request after an encrypted download and after an upload
  without `content_uri`; leaving the room cancels it. (`matrix-room.c:671`, `:489`)
* A second attempt at an image drops a reference that the first has dropped.
  (`matrix-room.c:530`)
* The content type is looked for under one spelling, though names of headers have
  no case; and a Content-Type among the trailers replaces that of the headers, if
  another trailer follows it. (`matrix-api.c:162`)
* An invitation stays before the user when the room is joined on another device;
  refusing it then leaves the room and keeps its conversation.
* After a removal from a room and another invitation, accepting does nothing, for
  the old conversation is there. (`libmatrix.c:170`)
* A response made before the user left a room makes its conversation again.
  (`matrix-sync.c:147`)
* Overlapping uploads send keys twice, and the answer to one marks the keys of the
  other. (`matrix-e2e.c:960`)

## Proofs

Every theorem holds for all values of the constants that satisfy the named
`ASSUME`s: any number of events, addresses, users, rooms, keys and failures. No
theorem is about liveness, which stays with TLC on the small instances (every other
property of a passing run is a theorem; the types of `Connection`, `Chats` and
`Encryption` are proved and in no run), as does
everything that needs `ENABLED`.

**`SendQueueProofs`.** Two inductive invariants and two more on top.
`Ordered` (types, the queue is a suffix of `typed`, only its head was ever
sent) is preserved by every action, attachments included: it gives `TypeCorrect`,
`QueueKeepsOrder` and `NoOvertaking`. `Guarded`, for rooms without attachments
(`NoMedia`), says that the running request is the one in the slot, belongs to the
head of the queue and to an open room, that the log is what was typed and is
no longer queued, perhaps with the head in addition. Neither `InOrder` nor
`SlotGuardsSend` is inductive alone: that a completion pops the event it has
sent needs the slot, and that the slot is right needs what was popped before. It
gives `NoMessageLost`, `DeliveredInOrder`, `SlotIsGuard` and
`CompletionsFindTheirData` (a completion finds its event, for the
only request in flight is that of the head of the queue, and its room, if the
window was not closed offline). `Imaged` adds how the references of images go together with
what was tried (`Tended`): only the head of the queue has ever been tried, and one whose
upload has ended without a failure is being sent. It gives `ImagesAreKept`, with any
number of failures, and, where uploads are answered with the file's address,
`SlotNeverDangles`: the one case in which a slot could stay behind is an image whose hook
gives up because the image is gone. After a completion the next event has not been tried
yet, so the plugin's own reference still keeps its image; every other call of the hook
finds the slot empty. `Kept`
adds what holds while nothing has failed (`Calm`): it gives `NoForgottenMessage`. `RoomIsFifo` shows that each step of a room without
attachments is a step of `OutboundFifo` or none: an event is *delivered* when the
homeserver takes it, and waits until then wherever the code keeps it.

**`RoomStateProofs`.** `Consistent` says that a member is in at most one of the
three lists, once, and that the list agrees with `opaque`: one in `newMembers` has joined and is
not known to libpurple, one in `leftMembers` is known and has not joined, one in
`renamedMembers` is known, and a member in no list is known by its current name if
it has joined. An event still to handle has a member that waits in no list, which
is where the two passes and the one event per key come in. `listed` counts the
known members of each name; and `table`, with what the response still holds,
leads to `seen`. It gives `AssertionsHold` and `RosterMirrors`. `Titled` adds that
a title that may be out of date has its update scheduled; `TitleFollows` holds
where `m.room.aliases` is not set, and the run `room_aliases` shows that it does
not hold otherwise.

**`ConnectionProofs`.** `Inv` adds to the types that no position is ahead of the
stream or of what was handled (`Ordered`); that what was not set since the last
response is what it said (`SeenIsCurrent`); that where there are conversations
every room has one or is excused (`RoomsKnown`), so that a request for less than
the full state leaves no gap (`RequestFits`), nor does its answer, however old it is when it
comes (`ReplyFits`); and that the position kept is the one last handled unless it was
lost (`BatchKept`). `TablesComplete` and `OnlyNewShown` are conjuncts of it: alone
they do not survive `_start_sync`, whose guess from "there are conversations" is
right only because of `RoomsKnown`. `SomethingIsAwaited` is what is safe about `LoginSettles` and `CatchesUp`: as
long as no error was reported a connecting account has a request out or the user
before a prompt (or dismissed it), and a connected one has a `/sync` out.

**`ChatsProofs`.** `Linked` says that a chat is "left" only while there is no
connection, which gives `AllShown`. That the last of a room's events is the last
one (`LastIsLast`) comes from the well-ordering of the naturals; it gives
`AllRaised`. `ConversationsAreJoined` is not inductive: a conversation made by a
response may be one of a room that the user has just asked to leave. `JoinedInv`
says instead that a conversation that is not stale is of a room that the account
is in and that nothing the user has asked will take it out of. `WishInv` says that in a room
where requests have not crossed at most one is on its way, and that it is the one
that makes the wish true where it is not true yet. `JoinedToCome` is inductive by itself: a room that the account is in and
that has no chat is in a response to come. Its proof is about the stream, for the
change of membership that a response in hand does not know of lies behind that
response (`LaterComing`), and about `_start_sync`, which forgets what was closed only
where it starts from the beginning (`ConnectToCome`). This is what is safe about
`JoinedShown`: TLC checks that the response comes.

**`KeyUploadProofs`.** `SentInv`: while no two uploads overlap, the one that waits
for its answer carries every key that is not marked, so that marking all of them
is right. `OnceInv`: without overlaps and losses one upload at most is on its way,
its keys are new to the homeserver until it takes them up, and a key it has seen is
marked, in memory and in the settings, unless the answer for it is still to come;
so no later upload has a key that was given out. `HeldInv`: without mishaps the
keys that others have or can get are in the account in use, and stored unless their
answer is still to come; and what is being sent is in the account.

**`ApiProofs`.** The types hold for every set of responses, in every division:
a step takes a fragment away. `AnsweredOnce` follows from
the types, one action at a time. `HeadersJoined` and `AnswersTrue` compare with
the concatenation of all fragments, which the library defines by recursion; that
definition is first shown to satisfy its equation (`FlattenJoins`), by a minimal
counterexample where an induction would be needed (the theorem on induction has an operator
for a parameter, `WFMin` has a set), and from it follow the lemmas on the first fragment
and the rest. `ParserInv` then says what the parser has: while headers are
read, the name and the value collected so far, continued by the fragments that are
left of the header at hand, are those of the response (`InName`, `InValue`), and the
content type taken so far is that of the headers that are done (`TypeSoFar`);
after them the type is the response's, and the body so far continued by what is left
is its body. `FinalOnlyOnAnswer` follows: only a callback for a refusal or a success
can be final (`CallReports`), the only step that calls one is the last of a response
(`FinalCalls`), and what it tells is the verdict on all of that response (`AnswersTrue`). The assumptions on the constants that this needs are that responses are
typed and no header is without a name, as http_parser has them, and that
"Content-Type" is not the empty name; TLC evaluates them. All of Api's properties but
`AnswersCome`, which is about liveness, are proved.

**`SyncLoopProofs`, and the three loops.** `SyncLoop` says what the loop of `/sync`
requests promises: a request begins where everything before was handled, a
response has all from there to the end of the stream, and the loop may be interrupted anywhere.
`NothingPassedOver` is that what was handled is then always a whole prefix of
the stream; the invariant it needs is that a response on its way ends no earlier than
that prefix does (`AnswersFit`). `Connection` implements it
(`ConnectionIsSyncLoop`, which TLC checks too) by the parts of `Inv` that are about
positions: no kept position is ahead of what was handled, so that neither a restart from
older settings nor a missing `next_batch` can make a gap. `Chats` and `Encryption`,
whose states do not say what was handled, have it with a history variable,
`handled`, that is set where a response has been handled and read by no step
(`ChatsAreSyncLoop`, `EncryptionIsSyncLoop`): so the three modules, which abstract
the same loop in three ways, agree on what it promises.

**`EncryptionProofs`.** `ReadOnce` says that whatever was decrypted is marked in
the session that the database has of its device and nothing else is, and that the
sessions in memory are those of the database. So a message that comes again after
a restart finds a session that refuses it: `NothingOpenedTwice`. For
`MissedAreExcused` the invariant goes on: a one-time key that is gone, from the
memory, the settings or the saved settings, has left a session of its
device in the database (`KeysLeft`), so that every message to the device whose
turn is past was decrypted or has met another session (`AllHandled`); rooms
joined by a position have their conversation before the keys up to it are handled
(`RoomsMade`); and a key decrypted on this connection is kept, or an
earlier one is (`KeysKept`). Each of these is stated for every way in which a
position can be behind the connection: acknowledged, kept, saved, handled.

## Plan

1. Typing: `_on_typing` on the shared array, the two directions.
2. Encryption extended by leaving a room and by a second account; KeyUpload by
   the account whose keys were not made yet.
3. Composition of the queue with the member table, for the name a download
   borrows; lookups from a name to a user id where names are not unique.
4. Echoes of sent messages in the timeline.
5. Theorems: the queue with attachments, for what survives the shared slot beyond
   `Ordered`.
