------------------------- MODULE RemoteCallsProofs --------------------------
(***************************************************************************)
(* Proofs about RemoteCalls, for all widths, numbers and bounds: a client  *)
(* and the daemon stay in step, a remote command is as good as a local one,*)
(* what a command shows is real, and a number a command checks arrives     *)
(* whole.                                                                  *)
(*                                                                         *)
(* The first part shows, command by command, that every call is one of a   *)
(* handler there is and has the arguments that handler looks at.  The      *)
(* second is the invariant that the two stay in step, the third the        *)
(* refinement of LocalCalls.                                               *)
(*                                                                         *)
(* The rest is about values.  A reply is made from the setting its handler *)
(* reports.  So the inductive invariant says what the settings may be whose*)
(* numbers are converted on the way: the numbers stay within the           *)
(* enumeration or the width that the handler converts them from.  That only*)
(* the right handlers change these settings is read off the handlers'      *)
(* tables, manager by manager.                                             *)
(***************************************************************************)
EXTENDS RemoteCalls, TLAPS, SequenceTheorems

LooksAtFirst ==
  Indexed \cup {"audio_set_state", "mixer_set_input_source", "backlight_enable", "media_player_set_position"}

HasArguments(c) ==
  /\ c.f \in Function
  /\ c.a \in Seq(Int)
  /\ c.f \in LooksAtFirst => Len(c.a) >= 1
  /\ c.f = "mixer_set_volume" => Len(c.a) = 2
  /\ c.f = "voip_login" => Len(c.a) >= 4

\* A command makes at most two calls.
Queue(calls) ==
  \/ calls = <<>>
  \/ \E c : HasArguments(c) /\ calls = <<c>>
  \/ \E c, d : HasArguments(c) /\ HasArguments(d) /\ calls = <<c, d>>

\* It returns at once only if it makes none.
WellFormed(i) ==
  /\ Queue(i.calls)
  /\ i.calls = <<>> \/ i.verdict = "pending"
  /\ i.verdict \in {"pending", "ok", "EINVAL"}

-----------------------------------------------------------------------------
(* The commands.                                                           *)

\* The functions the managers implement.
LEMMA Functions ==
  /\ {"audio_set_state", "audio_get_state", "audio_set_volume", "audio_get_volume"} \subseteq Function
  /\ {"mixer_set_volume", "mixer_get_volume", "mixer_set_mute", "mixer_is_muted", "mixer_set_input_source",
      "mixer_get_input_source", "mixer_loopback_enable", "mixer_loopback_is_enabled"} \subseteq Function
  /\ {"backlight_enable", "backlight_set", "backlight_get"} \subseteq Function
  /\ {"handset_display_clear", "handset_display_sync", "handset_display_set_brightness",
      "handset_keypad_set_brightness", "handset_show_icon", "handset_hide_icon", "handset_show_text",
      "handset_hide_text"} \subseteq Function
  /\ {"media_player_start", "media_player_stop", "media_player_pause", "media_player_resume",
      "media_player_is_running", "media_player_set_stream", "media_player_get_stream",
      "media_player_set_crop", "media_player_set_output_window", "media_player_get_duration",
      "media_player_get_position", "media_player_set_position"} \subseteq Function
  /\ {"modem_init", "modem_deinit", "modem_pick_up", "modem_hang_up", "modem_dial", "modem_is_calling",
      "modem_is_connected"} \subseteq Function
  /\ {"voip_login", "voip_logout", "voip_still_logged_in", "voip_connect_to", "voip_disconnect",
      "voip_accept_incoming", "voip_dial"} \subseteq Function
  /\ {"card_get_type", "card_read", "card_write"} \subseteq Function
  /\ {"sound_play", "sound_stop"} \subseteq Function
  /\ {"task_manager_exec", "task_manager_kill"} \subseteq Function
  /\ {"lldp_read", "tuner_set_frequency"} \subseteq Function
<1>1. /\ DOMAIN AudioImpl \subseteq Function
      /\ DOMAIN MixerImpl \subseteq Function
      /\ DOMAIN BacklightImpl \subseteq Function
      /\ DOMAIN HandsetImpl \subseteq Function
      /\ DOMAIN MediaPlayerImpl \subseteq Function
      /\ DOMAIN ModemImpl \subseteq Function
      /\ DOMAIN VoipImpl \subseteq Function
      /\ DOMAIN CardImpl \subseteq Function
      /\ DOMAIN SoundImpl \subseteq Function
      /\ DOMAIN TaskManagerImpl \subseteq Function
      /\ DOMAIN LldpImpl \subseteq Function
      /\ DOMAIN TunerImpl \subseteq Function
  BY DEF Function, Managers
<1>2. QED
  BY <1>1 DEF AudioImpl, MixerImpl, BacklightImpl, HandsetImpl, MediaPlayerImpl, ModemImpl, VoipImpl,
    CardImpl, SoundImpl, TaskManagerImpl, LldpImpl, TunerImpl

\* Words are numbers.
LEMMA Numbers == (\A t \in Text : t \in Int) /\ (\A n \in Typed : n \in Int)
  BY CommandsAssumption DEF CommandsAssumption

\* A call with enough arguments has the arguments its handler looks at.
LEMMA EnoughArguments ==
  /\ \A f \in Function : f \notin LooksAtFirst \cup {"voip_login"} => HasArguments(Call(f, <<>>))
  /\ \A f \in Function : \A x \in Int : f # "mixer_set_volume" /\ f # "voip_login" => HasArguments(Call(f, <<x>>))
  /\ \A f \in Function : \A x, y \in Int : f # "voip_login" => HasArguments(Call(f, <<x, y>>))
  /\ \A f \in Function : \A x, y, z \in Int : f # "mixer_set_volume" /\ f # "voip_login" => HasArguments(Call(f, <<x, y, z>>))
  /\ \A f \in Function : \A w, x, y, z \in Int :
       f # "mixer_set_volume" => HasArguments(Call(f, <<w, x, y, z>>))
<1> SUFFICES ASSUME NEW f \in Function
             PROVE  /\ f \notin LooksAtFirst \cup {"voip_login"} => HasArguments(Call(f, <<>>))
                    /\ \A x \in Int : f # "mixer_set_volume" /\ f # "voip_login" => HasArguments(Call(f, <<x>>))
                    /\ \A x, y \in Int : f # "voip_login" => HasArguments(Call(f, <<x, y>>))
                    /\ \A x, y, z \in Int : f # "mixer_set_volume" /\ f # "voip_login" => HasArguments(Call(f, <<x, y, z>>))
                    /\ \A w, x, y, z \in Int :
                         f # "mixer_set_volume" => HasArguments(Call(f, <<w, x, y, z>>))
  OBVIOUS
<1>1. f \notin LooksAtFirst \cup {"voip_login"} => HasArguments(Call(f, <<>>))
  BY DEF Call, HasArguments, LooksAtFirst, Indexed
<1>2. \A x \in Int : f # "mixer_set_volume" /\ f # "voip_login" => HasArguments(Call(f, <<x>>))
  BY DEF Call, HasArguments
<1>3. \A x, y \in Int : f # "voip_login" => HasArguments(Call(f, <<x, y>>))
  BY DEF Call, HasArguments
<1>4. \A x, y, z \in Int : f # "mixer_set_volume" /\ f # "voip_login" => HasArguments(Call(f, <<x, y, z>>))
  BY DEF Call, HasArguments
<1>5. \A w, x, y, z \in Int : f # "mixer_set_volume" => HasArguments(Call(f, <<w, x, y, z>>))
  BY DEF Call, HasArguments
<1>6. QED
  BY <1>1, <1>2, <1>3, <1>4, <1>5

\* Every way to write a command gives a well-formed one.
LEMMA Forms ==
  /\ \A name : WellFormed(Rejects(name))
  /\ \A name, n : WellFormed(Command(name, <<>>, n, "ok"))
  /\ \A name, c : HasArguments(c) => WellFormed(Runs(name, <<c>>))
  /\ \A name, n, f, a : HasArguments(Call(f, a)) => WellFormed(Gives(name, n, f, a))
  /\ \A name, f, a : HasArguments(Call(f, a)) => WellFormed(Shows(name, f, a))
  /\ \A name, c, d : HasArguments(c) /\ HasArguments(d) => WellFormed(Runs(name, <<c, d>>))
  BY DEF WellFormed, Queue, Rejects, Runs, Gives, Shows, Command

\* The commands of commands.c:72-163.
LEMMA AudioWellFormed == \A i \in AudioCommands : WellFormed(i)
<1>1. \A n \in Typed : WellFormed(AudioVolume(n))
  BY Numbers, EnoughArguments, Functions, Forms DEF AudioVolume
<1>2. \A n \in Int : WellFormed(Runs("audio-state", <<Call("audio_set_state", <<ParseAudioState(n), 1>>)>>))
  <2>1. \A n \in Int : ParseAudioState(n) \in Int
    BY DEF ParseAudioState
  <2>2. QED
    BY <2>1, EnoughArguments, Functions, Forms
<1>3. /\ WellFormed(Shows("audio-volume", "audio_get_volume", <<>>))
      /\ WellFormed(Shows("audio-state", "audio_get_state", <<>>))
  BY EnoughArguments, Functions, Forms DEF LooksAtFirst, Indexed
<1>4. {AudioStateMap[i] : i \in DOMAIN AudioStateMap} \subseteq Int
  BY DEF AudioStateMap
<1>5. QED
  BY <1>1, <1>2, <1>3, <1>4, Numbers DEF AudioCommands

\* The commands of commands.c:172-355.
LEMMA MixerWellFormed == \A i \in MixerCommands : WellFormed(i)
<1> DEFINE SetVolume == {MixerVolume(c, n) : c \in Control, n \in Typed}
           GetVolume == {Shows("mixer-volume", "mixer_get_volume", <<c>>) : c \in Control}
           SetMute   == {MixerMute(c, b) : c \in Control, b \in Switch}
           IsMuted   == {Shows("mixer-mute", "mixer_is_muted", <<c>>) : c \in Control}
           SetInput  == {Runs("mixer-input", <<Call("mixer_set_input_source", <<i>>)>>) : i \in Input}
           Loopback  == {Runs("mixer-loopback", <<Call("mixer_loopback_enable", <<b>>)>>) : b \in Switch}
           Others    == {Shows("mixer-input", "mixer_get_input_source", <<>>),
                         Shows("mixer-loopback", "mixer_loopback_is_enabled", <<>>),
                         Rejects("mixer-volume"), Rejects("mixer-mute"), Rejects("mixer-loopback")}
<1>0. /\ \A c \in Control : c \in Int
      /\ \A i \in Input : i \in Int
      /\ \A b \in Switch : b \in Int
  BY DEF Control, Input, Switch
<1>1. \A i \in SetVolume : WellFormed(i)
  <2> SUFFICES ASSUME NEW c \in Control, NEW n \in Typed
               PROVE  WellFormed(MixerVolume(c, n))
    OBVIOUS
  <2> QED
    BY <1>0, Numbers, EnoughArguments, Functions, Forms DEF MixerVolume
<1>2. \A i \in GetVolume : WellFormed(i)
  BY <1>0, EnoughArguments, Functions, Forms
<1>3. \A i \in SetMute : WellFormed(i)
  <2> SUFFICES ASSUME NEW c \in Control, NEW b \in Switch
               PROVE  WellFormed(MixerMute(c, b))
    OBVIOUS
  <2> QED
    BY <1>0, EnoughArguments, Functions, Forms DEF MixerMute
<1>4. \A i \in IsMuted : WellFormed(i)
  BY <1>0, EnoughArguments, Functions, Forms
<1>5. \A i \in SetInput : WellFormed(i)
  BY <1>0, EnoughArguments, Functions, Forms
<1>6. \A i \in Loopback : WellFormed(i)
  BY <1>0, EnoughArguments, Functions, Forms
<1>7. \A i \in Others : WellFormed(i)
  BY EnoughArguments, Functions, Forms DEF LooksAtFirst, Indexed
<1>8. MixerCommands = SetVolume \cup GetVolume \cup SetMute \cup IsMuted \cup SetInput \cup Loopback \cup Others
  BY DEF MixerCommands
<1> HIDE DEF SetVolume, GetVolume, SetMute, IsMuted, SetInput, Loopback, Others
<1>9. QED
  BY <1>1, <1>2, <1>3, <1>4, <1>5, <1>6, <1>7, <1>8

\* The commands of commands.c:360-440.
LEMMA BacklightWellFormed == \A i \in BacklightCommands : WellFormed(i)
<1>1. \A b \in Switch : WellFormed(Runs("backlight-power", <<Call("backlight_enable", <<b>>)>>))
  BY EnoughArguments, Functions, Forms DEF Switch
<1>2. \A n \in Typed : WellFormed(Gives("backlight-brightness", n, "backlight_set", <<n>>))
  BY Numbers, EnoughArguments, Functions, Forms
<1>3. WellFormed(Shows("backlight-brightness", "backlight_get", <<>>))
  BY EnoughArguments, Functions, Forms DEF LooksAtFirst, Indexed
<1>4. QED
  BY <1>1, <1>2, <1>3, Forms DEF BacklightCommands

\* The commands of commands.c:480-789.
LEMMA MediaPlayerWellFormed == \A i \in MediaPlayerCommands : WellFormed(i)
<1> DEFINE Uri    == {MediaPlayerUri(u) : u \in Text}
           Output == {Window(n, words) : n \in Typed, words \in 0..4}
           Play   == {Runs("media-player-play",
                        <<Call("media_player_set_stream", <<u>>), Call("media_player_start", <<>>)>>) : u \in Text}
           Seek   == {MediaPlayerPosition(n) : n \in Typed}
           Others == {Runs("media-player-play", <<Call("media_player_start", <<>>)>>),
                      Runs("media-player-stop", <<Call("media_player_stop", <<>>)>>),
                      Runs("media-player-pause", <<Call("media_player_pause", <<>>)>>),
                      Runs("media-player-resume", <<Call("media_player_resume", <<>>)>>),
                      Shows("media-player-uri", "media_player_get_stream", <<>>),
                      Shows("media-player-duration", "media_player_get_duration", <<>>),
                      Shows("media-player-position", "media_player_get_position", <<>>),
                      MediaPlayerState,
                      Rejects("media-player-position")}
<1>1. \A i \in Uri : WellFormed(i)
  BY Numbers, EnoughArguments, Functions, Forms DEF MediaPlayerUri
<1>2. \A i \in Output : WellFormed(i)
  <2> SUFFICES ASSUME NEW n \in Typed, NEW words \in 0..4
               PROVE  WellFormed(Window(n, words))
    OBVIOUS
  <2> DEFINE w == [i \in 1..4 |-> IF i <= words THEN n % Half ELSE Half - 1]
  <2>1. n % Half \in Int /\ Half - 1 \in Int
    BY Numbers, WidthAssumption DEF WidthAssumption
  <2>2. w \in Seq(Int) /\ Len(w) = 4
    BY <2>1
  <2>3. HasArguments(Call("media_player_set_output_window", w))
    BY <2>2, Functions DEF HasArguments, Call, LooksAtFirst, Indexed
  <2>4. QED
    BY <2>3, Forms DEF Window
<1>3. \A i \in Play : WellFormed(i)
  <2>1. HasArguments(Call("media_player_start", <<>>))
    BY EnoughArguments, Functions DEF LooksAtFirst, Indexed
  <2>2. QED
    BY <2>1, Numbers, EnoughArguments, Functions, Forms
<1>4. \A i \in Seek : WellFormed(i)
  BY Numbers, EnoughArguments, Functions, Forms DEF MediaPlayerPosition
<1>5. \A i \in Others : WellFormed(i)
  BY EnoughArguments, Functions, Forms DEF MediaPlayerState, LooksAtFirst, Indexed
<1>6. MediaPlayerCommands = Uri \cup Output \cup Play \cup Seek \cup Others
  BY DEF MediaPlayerCommands
<1> HIDE DEF Uri, Output, Play, Seek, Others
<1>7. QED
  BY <1>1, <1>2, <1>3, <1>4, <1>5, <1>6

\* The commands of commands.c:794-938.
LEMMA SoundAndModemWellFormed == \A i \in SoundCommands \cup ModemCommands : WellFormed(i)
<1>1. \A i \in SoundCommands : WellFormed(i)
  BY Numbers, EnoughArguments, Functions, Forms DEF SoundCommands, LooksAtFirst, Indexed
<1>2. \A i \in ModemCommands : WellFormed(i)
  BY Numbers, EnoughArguments, Functions, Forms DEF ModemCommands, LooksAtFirst, Indexed
<1>3. QED
  BY <1>1, <1>2

\* The commands of commands.c:969-1058.
LEMMA TaskWellFormed == \A i \in TaskCommands : WellFormed(i)
<1> DEFINE Exec == {Shows("task-exec", "task_manager_exec", <<t>>) : t \in Text}
           Kill == {TaskKill(pid, sig) : pid \in Typed, sig \in Typed \cup {SIGTERM}}
<1>1. \A i \in Exec : WellFormed(i)
  BY Numbers, EnoughArguments, Functions, Forms
<1>2. \A i \in Kill : WellFormed(i)
  <2> SUFFICES ASSUME NEW pid \in Typed, NEW sig \in Typed \cup {SIGTERM}
               PROVE  WellFormed(TaskKill(pid, sig))
    OBVIOUS
  <2> QED
    BY Numbers, EnoughArguments, Functions, Forms DEF SIGTERM, TaskKill
<1>3. TaskCommands = Exec \cup Kill \cup {Rejects("task-exec"), Rejects("task-kill")}
  BY DEF TaskCommands
<1> HIDE DEF Exec, Kill
<1>4. QED
  BY <1>1, <1>2, <1>3, Forms

\* The commands of commands.c:1063-1243.
LEMMA VoipWellFormed == \A i \in VoipCommands : WellFormed(i)
<1>1. \A t \in Text : WellFormed(Runs("voip-login", <<Call("voip_login", <<t, 0, t, t>>)>>))
  BY Numbers, EnoughArguments, Functions, Forms
<1>2. \A t \in Text : WellFormed(Runs("voip-call", <<Call("voip_connect_to", <<t>>)>>))
  BY Numbers, EnoughArguments, Functions, Forms
<1>3. \A n \in Typed : WellFormed(VoipDtmf(n))
  BY Numbers, EnoughArguments, Functions, Forms DEF VoipDtmf
<1>4. /\ WellFormed(Runs("voip-logout", <<Call("voip_logout", <<>>)>>))
      /\ WellFormed(Runs("voip-terminate", <<Call("voip_disconnect", <<>>)>>))
      /\ WellFormed(Shows("voip-accept", "voip_accept_incoming", <<>>))
  BY EnoughArguments, Functions, Forms DEF LooksAtFirst, Indexed
<1>5. QED
  BY <1>1, <1>2, <1>3, <1>4, Forms DEF VoipCommands

\* The commands of commands.c:1283-1459.
LEMMA HandsetWellFormed == \A i \in HandsetCommands : WellFormed(i)
<1> DEFINE Light  == {HandsetBacklight(n, f) :
                        n \in Typed, f \in {"handset_display_set_brightness", "handset_keypad_set_brightness"}}
           Shown  == {Runs("handset-show-icon", <<Call("handset_show_icon", <<i>>)>>) : i \in Icon}
           Texts  == {HandsetShowText(x, y, t) :
                        x \in Typed \cup {8}, y \in Typed \cup {48}, t \in Text}
           Others == {Runs("handset-display-clear", <<Call("handset_display_clear", <<>>)>>),
                      Runs("handset-display-sync", <<Call("handset_display_sync", <<>>)>>),
                      Rejects("handset-backlight"), Rejects("handset-show-icon"), Rejects("handset-show-text")}
<1>1. \A i \in Light : WellFormed(i)
  <2> SUFFICES ASSUME NEW n \in Typed,
                      NEW f \in {"handset_display_set_brightness", "handset_keypad_set_brightness"}
               PROVE  WellFormed(HandsetBacklight(n, f))
    OBVIOUS
  <2> QED
    BY Numbers, EnoughArguments, Functions, Forms DEF HandsetBacklight
<1>2. \A i \in Shown : WellFormed(i)
  <2>1. \A i \in Icon : i \in Int
    BY DEF Icon
  <2>2. QED
    BY <2>1, EnoughArguments, Functions, Forms
<1>3. \A i \in Texts : WellFormed(i)
  <2> SUFFICES ASSUME NEW x \in Typed \cup {8}, NEW y \in Typed \cup {48}, NEW t \in Text
               PROVE  WellFormed(HandsetShowText(x, y, t))
    OBVIOUS
  <2>1. x \in Int /\ y \in Int /\ t \in Int
    BY Numbers
  <2>2. "handset_show_text" \in Function
    BY Functions
  <2>3. HasArguments(Call("handset_show_text", <<x, y, t>>))
    BY <2>1, <2>2, EnoughArguments
  <2>4. QED
    BY <2>3, Forms DEF HandsetShowText
<1>4. \A i \in Others : WellFormed(i)
  BY EnoughArguments, Functions, Forms DEF LooksAtFirst, Indexed
<1>5. HandsetCommands = Light \cup Shown \cup Texts \cup Others
  BY DEF HandsetCommands
<1> HIDE DEF Light, Shown, Texts, Others
<1>6. QED
  BY <1>1, <1>2, <1>3, <1>4, <1>5

\* The commands of commands.c:446-475, 943-964 and 1248-1278.
LEMMA OthersWellFormed == \A i \in OtherCommands : WellFormed(i)
<1>1. \A n \in Typed : WellFormed(Runs("tuner-frequency", <<Call("tuner_set_frequency", <<n>>)>>))
  BY Numbers, EnoughArguments, Functions, Forms
<1>2. WellFormed(SmartcardRead) /\ WellFormed(LldpDump)
  <2>1. "card_read" \in Function /\ "lldp_read" \in Function
    BY Functions
  <2>2. "lldp_read" \notin LooksAtFirst \cup {"voip_login"}
    BY DEF LooksAtFirst, Indexed
  <2>3. HasArguments(Call("card_read", <<0>>)) /\ HasArguments(Call("lldp_read", <<>>))
    BY <2>1, <2>2, EnoughArguments
  <2>4. QED
    BY <2>3, Forms DEF SmartcardRead, LldpDump
<1>3. QED
  BY <1>1, <1>2, Forms DEF OtherCommands

\* The functions of the library that no command calls.
LEMMA LibraryWellFormed == \A i \in LibraryCalls : WellFormed(i)
<1> DEFINE Write == {Application("card_write", <<0, t>>) : t \in Text}
           Hide  == {Application("handset_hide_icon", <<i>>) : i \in Icon}
           Erase == {HideText(n, t) : n \in Typed, t \in Text}
           Crop  == {Application("media_player_set_crop", <<n, n, n, n>>) : n \in Typed}
           Query == {Application(f, <<>>) :
                       f \in {"card_get_type", "voip_still_logged_in", "modem_is_calling", "modem_is_connected"}}
<1>1. \A i \in Write : WellFormed(i)
  <2>1. \A t \in Text : WellFormed(Application("card_write", <<0, t>>))
    BY Numbers, EnoughArguments, Functions, Forms DEF Application
  <2>2. QED
    BY <2>1
<1>2. \A i \in Hide : WellFormed(i)
  <2>1. "handset_hide_icon" \in Function /\ \A i \in Icon : i \in Int
    BY Functions DEF Icon
  <2>2. \A i \in Icon : HasArguments(Call("handset_hide_icon", <<i>>))
    BY <2>1, EnoughArguments
  <2>3. \A i \in Icon : WellFormed(Application("handset_hide_icon", <<i>>))
    BY <2>2, Forms DEF Application
  <2>4. QED
    BY <2>3
<1>3. \A i \in Erase : WellFormed(i)
  <2> SUFFICES ASSUME NEW n \in Typed, NEW t \in Text
               PROVE  WellFormed(HideText(n, t))
    OBVIOUS
  <2>1. n \in Int /\ t \in Int
    BY Numbers
  <2>2. "handset_hide_text" \in Function
    BY Functions
  <2>3. HasArguments(Call("handset_hide_text", <<n, n, t>>))
    BY <2>1, <2>2, EnoughArguments
  <2>4. QED
    BY <2>3, Forms DEF HideText, Application
<1>4. \A i \in Crop : WellFormed(i)
  BY Numbers, EnoughArguments, Functions, Forms DEF Application
<1>5. \A i \in Query : WellFormed(i)
  BY EnoughArguments, Functions, Forms DEF LooksAtFirst, Indexed, Application
<1>6. LibraryCalls = Write \cup Hide \cup Erase \cup Crop \cup Query
  BY DEF LibraryCalls
<1> HIDE DEF Write, Hide, Erase, Crop, Query
<1>7. QED
  BY <1>1, <1>2, <1>3, <1>4, <1>5, <1>6

\* What anybody may ask of the client.
LEMMA InvocationWellFormed == \A i \in Invocation : WellFormed(i)
  BY AudioWellFormed, MixerWellFormed, BacklightWellFormed, MediaPlayerWellFormed, SoundAndModemWellFormed,
     TaskWellFormed, VoipWellFormed, HandsetWellFormed, OthersWellFormed, LibraryWellFormed DEF Invocation

-----------------------------------------------------------------------------
(* The client and the daemon stay in step.                                 *)

StepInv == InStep /\ Queue(todo)

\* Before the first command there is nothing to do.
LEMMA InitStepInv == Init => StepInv
  BY DEF Init, StepInv, InStep, Queue, NoReply

\* What is left of a queue is a queue.
LEMMA QueueTail == ASSUME NEW q, Queue(q), q # <<>>
                   PROVE  HasArguments(Head(q)) /\ Queue(Tail(q))
<1>1. CASE \E c : HasArguments(c) /\ q = <<c>>
  BY <1>1 DEF Queue
<1>2. CASE \E c, d : HasArguments(c) /\ HasArguments(d) /\ q = <<c, d>>
  <2>1. PICK c, d : HasArguments(c) /\ HasArguments(d) /\ q = <<c, d>>
    BY <1>2
  <2>2. Head(q) = c /\ Tail(q) = <<d>>
    BY <2>1
  <2>3. QED
    BY <2>1, <2>2 DEF Queue
<1>3. QED
  BY <1>1, <1>2 DEF Queue

\* A handler refuses a call with an error.
LEMMA Refusals == \A f, a : Refusal(f, a) \in {"none", "ENOSYS", "EINVAL"}
  BY DEF Refusal

\* Each step keeps the client and the daemon in step.
LEMMA NextStepInv == StepInv /\ [Next]_vars => StepInv'
<1> SUFFICES ASSUME StepInv, [Next]_vars
             PROVE  StepInv'
  OBVIOUS
<1> USE DEF StepInv, InStep
<1>1. ASSUME NEW i \in Invocation, Start(i)
      PROVE  StepInv'
  <2>1. WellFormed(i)
    BY InvocationWellFormed
  <2>2. i.calls # <<>> => result' = Pending
    BY <1>1, <2>1 DEF Start, WellFormed, Pending
  <2>3. QED
    BY <1>1, <2>1, <2>2 DEF Start, WellFormed
<1>2. CASE Send
  BY <1>2 DEF Send
<1>3. ASSUME NEW error, Abort(error)
      PROVE  StepInv'
  BY <1>3 DEF Abort, NoReply, Queue
<1>4. CASE Return
  <2>1. todo # <<>>
    BY <1>4 DEF Return
  <2>2. Queue(Tail(todo))
    BY <2>1, QueueTail
  <2>3. Tail(todo) # <<>> => result' = Pending
    BY <1>4, <2>1 DEF Return
  <2>4. QED
    BY <1>4, <2>2, <2>3 DEF Return, NoReply
<1>5. CASE Serve
  BY <1>5 DEF Serve, Answer
<1>6. CASE ServeError
  <2>1. \A e : Answer(e, Unset) /\ e # "none" => link' = "reply" /\ reply'.ret # "none"
    BY DEF Answer
  <2>2. link' = "reply" /\ reply'.ret # "none"
    BY <1>6, <2>1 DEF ServeError
  <2>3. QED
    BY <1>6, <2>2 DEF ServeError, Answer
<1>7. ASSUME NEW s \in DOMAIN Own, NEW v \in Own[s], Move(s, v)
      PROVE  StepInv'
  BY <1>7 DEF Move
<1>8. CASE UNCHANGED vars
  BY <1>8 DEF vars
<1>9. QED
  BY <1>1, <1>2, <1>3, <1>4, <1>5, <1>6, <1>7, <1>8 DEF Next, Lose, ReturnError

\* There is something under way only during a command that has not returned.
THEOREM InStepAlways == Spec => []InStep
<1>1. StepInv => InStep
  BY DEF StepInv
<1>2. QED
  BY InitStepInv, NextStepInv, <1>1, PTL DEF Spec

-----------------------------------------------------------------------------
(* A remote command is as good as a local one.                             *)

\* The protocol's types keep what a handler looks at.
LEMMA FirstKept == ASSUME NEW f \in LooksAtFirst \ {"media_player_set_position"}, NEW a \in Seq(Int), Len(a) >= 1
                   PROVE  Wire(f, a)[1] = a[1]
<1>1. 1 \in DOMAIN a
  OBVIOUS
<1>2. QED
  BY <1>1 DEF Wire, LooksAtFirst, Indexed

\* The same for the arguments of a login.
LEMMA LoginKept == ASSUME NEW a \in Seq(Int), Len(a) >= 4
                   PROVE  \A i \in 1..4 : Wire("voip_login", a)[i] = a[i]
<1>1. 1..4 \subseteq DOMAIN a
  OBVIOUS
<1>2. QED
  BY <1>1 DEF Wire

\* The handlers' enumerations are the client's.
LEMMA SameEnumerations == RpcAudio = RemoteAudio /\ RpcInput = RemoteInput
  BY DEF RpcAudio, RemoteAudio, RpcInput, RemoteInput

\* LocalCalls has the same handlers.
LEMMA SameHandlers ==
  /\ \A f, a : Local!Wire(f, a) = Wire(f, a)
  /\ \A n, enum : Local!Position(n, enum) = Position(n, enum)
  /\ Local!SipPort = SipPort
  /\ Local!Indexed = Indexed
  /\ \A f, a, s : Local!KeyOf(f, a, s) = KeyOf(f, a, s)
  /\ Local!Impl = Impl
<1>1. \A f, a : Local!Wire(f, a) = Wire(f, a)
  BY DEF Wire, Local!Wire
<1>2. \A n, enum : Local!Position(n, enum) = Position(n, enum)
  BY DEF Position, Local!Position
<1>3. Local!SipPort = SipPort /\ Local!Indexed = Indexed
  BY DEF SipPort, Local!SipPort, Indexed, Local!Indexed
<1>4. \A f, a, s : Local!KeyOf(f, a, s) = KeyOf(f, a, s)
  BY <1>3 DEF KeyOf, Local!KeyOf
<1>5. Local!Impl = Impl
  <2> USE DEF Setting, Sets, Puts, Gets, Unimplemented, Stopped, Playing, Paused,
              Local!Setting, Local!Sets, Local!Puts, Local!Gets, Local!Unimplemented,
              Local!Stopped, Local!Playing, Local!Paused
  <2>1. Local!AudioImpl = AudioImpl /\ Local!MixerImpl = MixerImpl
    BY DEF AudioImpl, MixerImpl, Local!AudioImpl, Local!MixerImpl
  <2>2. Local!BacklightImpl = BacklightImpl /\ Local!HandsetImpl = HandsetImpl
    BY DEF BacklightImpl, HandsetImpl, Local!BacklightImpl, Local!HandsetImpl
  <2>3. Local!MediaPlayerImpl = MediaPlayerImpl /\ Local!ModemImpl = ModemImpl
    BY DEF MediaPlayerImpl, ModemImpl, Local!MediaPlayerImpl, Local!ModemImpl
  <2>4. Local!VoipImpl = VoipImpl /\ Local!CardImpl = CardImpl
    BY DEF VoipImpl, CardImpl, Local!VoipImpl, Local!CardImpl
  <2>5. Local!SoundImpl = SoundImpl /\ Local!TaskManagerImpl = TaskManagerImpl
    BY DEF SoundImpl, TaskManagerImpl, Local!SoundImpl, Local!TaskManagerImpl
  <2>6. Local!LldpImpl = LldpImpl /\ Local!TunerImpl = TunerImpl
    BY DEF LldpImpl, TunerImpl, Local!LldpImpl, Local!TunerImpl
  <2>7. Local!Managers = Managers
    BY <2>1, <2>2, <2>3, <2>4, <2>5, <2>6 DEF Managers, Local!Managers
  <2>8. Local!Function = Function
    BY <2>7 DEF Function, Local!Function
  <2>9. QED
    BY <2>7, <2>8 DEF Impl, Local!Impl
<1>6. QED
  BY <1>1, <1>2, <1>3, <1>4, <1>5

\* What a handler gives to its manager is what the client means.
LEMMA MeantIsGiven == ASSUME NEW c, HasArguments(c)
                      PROVE  ManagerArgs(c.f, Wire(c.f, c.a)) = Local!Meant(c.f, c.a)
<1>1. CASE c.f \in {"audio_set_state", "mixer_set_input_source", "backlight_enable"}
  <2>1. Wire(c.f, c.a)[1] = c.a[1]
    BY <1>1, FirstKept DEF HasArguments, LooksAtFirst
  <2>2. QED
    BY <1>1, <2>1, SameEnumerations, SameHandlers DEF ManagerArgs, Local!Meant
<1>2. CASE c.f = "voip_login"
  <2>1. \A i \in 1..4 : Wire(c.f, c.a)[i] = c.a[i]
    BY <1>2, LoginKept DEF HasArguments
  <2>2. QED
    BY <1>2, <2>1, SameHandlers DEF ManagerArgs, Local!Meant
<1>3. CASE c.f \notin {"audio_set_state", "mixer_set_input_source", "backlight_enable", "voip_login"}
  BY <1>3, SameHandlers DEF ManagerArgs, Local!Meant
<1>4. QED
  BY <1>1, <1>2, <1>3

\* It is kept under the key the client means.
LEMMA SameKey == ASSUME NEW c, HasArguments(c), NEW s
                 PROVE  KeyOf(c.f, Wire(c.f, c.a), s) = KeyOf(c.f, c.a, s)
<1>1. c.f \in Indexed => Wire(c.f, c.a)[1] = c.a[1]
  BY FirstKept DEF HasArguments, LooksAtFirst, Indexed
<1>2. QED
  BY <1>1 DEF KeyOf

\* So a handler has the effect the client means.
LEMMA SameEffect ==
  ASSUME NEW c, HasArguments(c), NEW d
  PROVE  (IF Impl[c.f].set = "" THEN d
          ELSE [d EXCEPT ![KeyOf(c.f, Wire(c.f, c.a), Impl[c.f].set)] = Stored(c.f, Wire(c.f, c.a))])
         = Local!Effect(c, d)
  BY MeantIsGiven, SameKey, SameHandlers DEF Stored, Local!Effect

\* The first state of a client and its daemon is one of the local calls.
LEMMA InitLocal == Init => Local!Init
  BY DEF Init, Local!Init

\* A step of a client and its daemon is a step of the local calls, or none.
LEMMA NextLocal == StepInv /\ [Next]_vars => [Local!Next]_Local!vars
<1> SUFFICES ASSUME StepInv, [Next]_vars
             PROVE  [Local!Next]_Local!vars
  OBVIOUS
<1> DEFINE taken == link = "reply" /\ reply.ret = "ok"
<1>1. ASSUME NEW i \in Invocation, Start(i)
      PROVE  Local!Begin
  <2>1. ~taken /\ taken' = taken
    BY <1>1 DEF Start, StepInv, InStep
  <2>2. todo' # <<>> => result'.status = "pending"
    BY <1>1, InvocationWellFormed DEF Start, WellFormed, Pending
  <2>3. todo = <<>> /\ dev' = dev
    BY <1>1 DEF Start
  <2>4. QED
    BY <2>1, <2>2, <2>3 DEF Local!Begin
<1>2. CASE Send
  <2>1. taken' = taken
    BY <1>2 DEF Send
  <2>2. QED
    BY <1>2, <2>1 DEF Send, Local!vars
<1>3. ASSUME NEW error, Abort(error), todo # <<>>, error # "ok"
      PROVE  Local!Fail \/ Local!Forgive
  <2>1. taken' = FALSE
    BY <1>3 DEF Abort
  <2>2. todo' = <<>> /\ dev' = dev
    BY <1>3 DEF Abort
  <2>3. CASE Forgiven(error)
    <3>1. result'.status = "ok"
      BY <1>3, <2>3 DEF Abort, Pending
    <3>2. QED
      BY <1>3, <2>1, <2>2, <2>3, <3>1 DEF Local!Forgive, Forgiven
  <2>4. CASE ~Forgiven(error)
    <3>1. result'.status = error
      BY <1>3, <2>4 DEF Abort, Pending
    <3>2. QED
      BY <1>3, <2>1, <2>2, <3>1 DEF Local!Fail
  <2>5. QED
    BY <2>3, <2>4
<1>4. ASSUME Return
      PROVE  Local!Advance
  <2>1. taken /\ taken' = FALSE
    BY <1>4 DEF Return
  <2>2. todo # <<>> /\ todo' = Tail(todo) /\ dev' = dev
    BY <1>4 DEF Return, StepInv, InStep
  <2>3. result'.status = IF Tail(todo) = <<>> THEN "ok" ELSE result.status
    BY <1>4 DEF Return
  <2>4. QED
    BY <2>1, <2>2, <2>3 DEF Local!Advance
<1>5. ASSUME Serve
      PROVE  Local!Take
  <2>1. ~taken /\ taken' = TRUE
    BY <1>5 DEF Serve, Answer
  <2>2. todo # <<>> /\ todo' = todo /\ result' = result
    BY <1>5 DEF Serve, StepInv, InStep
  <2>3. HasArguments(Head(todo))
    BY <2>2, QueueTail DEF StepInv
  <2>4. dev' = Local!Effect(Head(todo), dev)
    BY <1>5, <2>3, SameEffect DEF Serve, Arguments
  <2>5. QED
    BY <2>1, <2>2, <2>4 DEF Local!Take
<1>6. CASE ServeError
  <2>1. PICK e : e # "ok" /\ Answer(e, Unset)
    BY <1>6, Refusals DEF ServeError
  <2>2. ~taken /\ ~taken'
    BY <2>1 DEF Answer
  <2>3. dev' = dev /\ todo' = todo /\ result' = result
    BY <1>6 DEF ServeError
  <2>4. taken' = taken
    BY <2>2
  <2>5. result'.status = result.status
    BY <2>3
  <2>6. UNCHANGED Local!vars
    BY <2>3, <2>4, <2>5, Zenon DEF Local!vars
  <2>7. QED
    BY <2>6
<1>7. ASSUME NEW s \in DOMAIN Own, NEW v \in Own[s], Move(s, v)
      PROVE  Local!Move
  <2>1. taken' = taken /\ todo' = todo /\ result' = result
    BY <1>7 DEF Move
  <2>2. <<s, 0>> \in OwnKey
    BY DEF OwnKey
  <2>3. dev' = [dev EXCEPT ![<<s, 0>>] = dev'[<<s, 0>>]]
    BY <1>7 DEF Move
  <2>4. QED
    BY <2>1, <2>2, <2>3 DEF Local!Move
<1>8. CASE UNCHANGED vars
  <2>1. taken' = taken
    BY <1>8 DEF vars
  <2>2. dev' = dev /\ todo' = todo /\ result'.status = result.status
    BY <1>8 DEF vars
  <2>3. UNCHANGED Local!vars
    BY <2>1, <2>2, Zenon DEF Local!vars
  <2>4. QED
    BY <2>3
<1>9. todo # <<>> /\ Lose => Local!Fail \/ Local!Forgive
  BY <1>3 DEF Lose
<1>10. ReturnError => Local!Fail \/ Local!Forgive
  BY <1>3 DEF ReturnError, StepInv, InStep
<1>11. QED
  BY <1>1, <1>2, <1>4, <1>5, <1>6, <1>7, <1>8, <1>9, <1>10 DEF Next, Lose, Local!Next

\* Each call of a remote command takes effect at most once, means to the manager
\* what it means to the client, and has taken effect if the command succeeds.
THEOREM RemoteIsLocal == Spec => ImplementsLocalCalls
  BY InitStepInv, NextStepInv, InitLocal, NextLocal, PTL DEF Spec, ImplementsLocalCalls

-----------------------------------------------------------------------------
(* The handlers' tables.                                                   *)

\* Settings whose numbers are converted or reduced when they are reported.
Converted == {"audio_state", "mixer_volume", "login_state", "duration", "position"}

\* Only the handlers that are meant to change such a setting do, to what the
\* client gave and nothing more; nobody sets a login state or a duration.
ChangesOwn(f, h) ==
  /\ h.adds \in Seq(Int)
  /\ h.set \in Converted =>
       /\ h.adds = <<>>
       /\ \/ h.set = "audio_state" /\ f = "audio_set_state"
          \/ h.set = "mixer_volume" /\ f = "mixer_set_volume"
          \/ h.set = "position" /\ f = "media_player_set_position"

\* Handlers that convert what they report.
Converters ==
  {"audio_get_state", "mixer_get_volume", "voip_still_logged_in", "media_player_get_duration",
   "media_player_get_position"}

\* They report the setting they are named for.
ReportsOwn(f, h) ==
  /\ f = "audio_get_state" => h.get = "audio_state"
  /\ f = "mixer_get_volume" => h.get = "mixer_volume"
  /\ f = "voip_still_logged_in" => h.get = "login_state"
  /\ f = "media_player_get_duration" => h.get = "duration"
  /\ f = "media_player_get_position" => h.get = "position"

Proper(f, h) == ChangesOwn(f, h) /\ ReportsOwn(f, h)

\* Ways to write an entry of a table.
LEMMA Entries ==
  /\ \A f, s, g : \A v \in Seq(Int) :
       s \notin Converted /\ f \notin Converters => Proper(f, Setting(s, g, v))
  /\ Proper("audio_set_state", Sets("audio_state"))
  /\ Proper("audio_get_state", Gets("audio_state"))
  /\ Proper("mixer_set_volume", Sets("mixer_volume"))
  /\ Proper("mixer_get_volume", Gets("mixer_volume"))
  /\ Proper("voip_still_logged_in", Gets("login_state"))
  /\ Proper("media_player_set_position", Sets("position"))
  /\ Proper("media_player_get_position", Gets("position"))
  /\ Proper("media_player_get_duration", Gets("duration"))
<1> USE DEF Proper, ChangesOwn, ReportsOwn, Setting, Sets, Gets
<1>1. \A f, s, g : \A v \in Seq(Int) :
        s \notin Converted /\ f \notin Converters => Proper(f, Setting(s, g, v))
  BY DEF Converters
<1>2. Proper("audio_set_state", Sets("audio_state")) /\ Proper("audio_get_state", Gets("audio_state"))
  BY DEF Converted
<1>3. Proper("mixer_set_volume", Sets("mixer_volume")) /\ Proper("mixer_get_volume", Gets("mixer_volume"))
  BY DEF Converted
<1>4. Proper("voip_still_logged_in", Gets("login_state"))
  BY DEF Converted
<1>5. /\ Proper("media_player_set_position", Sets("position"))
      /\ Proper("media_player_get_position", Gets("position"))
      /\ Proper("media_player_get_duration", Gets("duration"))
  BY DEF Converted
<1>6. QED
  BY <1>1, <1>2, <1>3, <1>4, <1>5

\* The same, for the usual entries.
LEMMA UsualEntries ==
  /\ \A f, s : s \notin Converted /\ f \notin Converters => Proper(f, Sets(s))
  /\ \A f, s : f \notin Converters => Proper(f, Gets(s))
  /\ \A f, s : \A v \in Int : s \notin Converted /\ f \notin Converters => Proper(f, Puts(s, v))
  /\ \A f : f \notin Converters => Proper(f, Unimplemented)
  /\ Proper("voip_accept_incoming", Setting("voip_call", "caller", <<1>>))
  /\ Proper("task_manager_exec", Setting("task", "pid", <<>>))
<1>1. <<>> \in Seq(Int) /\ <<1>> \in Seq(Int) /\ \A v \in Int : <<v>> \in Seq(Int)
  OBVIOUS
<1>2. "" \notin Converted
  BY DEF Converted
<1>3. \A f, s, g : \A v \in Seq(Int) :
        s \notin Converted /\ f \notin Converters => Proper(f, Setting(s, g, v))
  BY Entries
<1>4. \A f, s : s \notin Converted /\ f \notin Converters => Proper(f, Sets(s))
  BY <1>1, <1>3 DEF Sets
<1>5. \A f, s : f \notin Converters => Proper(f, Gets(s))
  BY <1>1, <1>2, <1>3 DEF Gets
<1>6. \A f, s : \A v \in Int : s \notin Converted /\ f \notin Converters => Proper(f, Puts(s, v))
  BY <1>1, <1>3 DEF Puts
<1>7. \A f : f \notin Converters => Proper(f, Unimplemented)
  BY <1>1, <1>2, <1>3 DEF Unimplemented
<1>8. Proper("voip_accept_incoming", Setting("voip_call", "caller", <<1>>))
  <2>1. "voip_call" \notin Converted /\ "voip_accept_incoming" \notin Converters
    BY DEF Converted, Converters
  <2>2. QED
    BY <1>1, <1>3, <2>1
<1>9. Proper("task_manager_exec", Setting("task", "pid", <<>>))
  <2>1. "task" \notin Converted /\ "task_manager_exec" \notin Converters
    BY DEF Converted, Converters
  <2>2. QED
    BY <1>1, <1>3, <2>1
<1>10. QED
  BY <1>4, <1>5, <1>6, <1>7, <1>8, <1>9

\* Each table, and so the union of them, is proper.
LEMMA Tables == \A f \in Function : Proper(f, Impl[f])
<1> USE DEF Converted, Converters
<1>1. \A f \in DOMAIN AudioImpl : Proper(f, AudioImpl[f])
  BY Entries, UsualEntries DEF AudioImpl
<1>2. \A f \in DOMAIN MixerImpl : Proper(f, MixerImpl[f])
  BY Entries, UsualEntries DEF MixerImpl
<1>3. \A f \in DOMAIN BacklightImpl : Proper(f, BacklightImpl[f])
  BY UsualEntries DEF BacklightImpl
<1>4. \A f \in DOMAIN HandsetImpl : Proper(f, HandsetImpl[f])
  BY UsualEntries DEF HandsetImpl
<1>5. \A f \in DOMAIN MediaPlayerImpl : Proper(f, MediaPlayerImpl[f])
  BY Entries, UsualEntries DEF MediaPlayerImpl, Stopped, Playing, Paused
<1>6. \A f \in DOMAIN ModemImpl : Proper(f, ModemImpl[f])
  BY UsualEntries DEF ModemImpl
<1>7. \A f \in DOMAIN VoipImpl : Proper(f, VoipImpl[f])
  BY Entries, UsualEntries DEF VoipImpl
<1>8. \A f \in DOMAIN CardImpl : Proper(f, CardImpl[f])
  BY UsualEntries DEF CardImpl
<1>9. \A f \in DOMAIN SoundImpl : Proper(f, SoundImpl[f])
  BY UsualEntries DEF SoundImpl
<1>10. \A f \in DOMAIN TaskManagerImpl : Proper(f, TaskManagerImpl[f])
  BY UsualEntries DEF TaskManagerImpl
<1>11. \A f \in DOMAIN LldpImpl : Proper(f, LldpImpl[f])
  BY UsualEntries DEF LldpImpl
<1>12. \A f \in DOMAIN TunerImpl : Proper(f, TunerImpl[f])
  BY UsualEntries DEF TunerImpl
<1>13. \A m \in Managers : \A f \in DOMAIN m : Proper(f, m[f])
  BY <1>1, <1>2, <1>3, <1>4, <1>5, <1>6, <1>7, <1>8, <1>9, <1>10, <1>11, <1>12 DEF Managers
<1>14. ASSUME NEW f \in Function
       PROVE  \E m \in Managers : f \in DOMAIN m /\ Impl[f] = m[f]
  BY DEF Function, Impl
<1>15. QED
  BY <1>13, <1>14

\* Nobody calls a function of this name.
LEMMA NoneIsNoFunction == "none" \notin Function
<1>1. \A m \in Managers : "none" \notin DOMAIN m
  BY DEF Managers, AudioImpl, MixerImpl, BacklightImpl, HandsetImpl, MediaPlayerImpl, ModemImpl, VoipImpl,
    CardImpl, SoundImpl, TaskManagerImpl, LldpImpl, TunerImpl
<1>2. QED
  BY <1>1 DEF Function

-----------------------------------------------------------------------------
(* What settings may be.                                                   *)

Fits(s, v) ==
  /\ v \in Seq(Int)
  /\ s = "audio_state" => v[1] \in 0..11
  /\ s = "mixer_volume" => \E x \in 0..Byte - 1 : v = <<x>>
  /\ s = "login_state" => v \in {<<0>>, <<1>>}
  /\ s \in {"duration", "position"} => v[1] \in Int

\* Numbers reduced to a width are numbers.
LEMMA Reduced == \A n \in Int : /\ n % Byte \in 0..Byte - 1
                                /\ n % Half \in Int
                                /\ n % Word \in Int
                                /\ n % 2 \in Int
  BY WidthAssumption DEF WidthAssumption

\* The place of a number in an enumeration of eleven.
LEMMA PositionBound == ASSUME NEW n, NEW enum, DOMAIN enum \subseteq 1..11
                       PROVE  Position(n, enum) \in 0..11
  BY DEF Position

\* The protocol's types leave as many numbers as there were.
LEMMA WireNumbers ==
  ASSUME NEW f, NEW a \in Seq(Int)
  PROVE  /\ Wire(f, a) \in Seq(Int)
         /\ Len(Wire(f, a)) = Len(a)
         /\ f = "mixer_set_volume" /\ Len(a) = 2 => Wire(f, a)[2] \in 0..Byte - 1
<1>1. \A i \in DOMAIN a : a[i] \in Int
  OBVIOUS
<1>2. \A i \in DOMAIN a : Wire(f, a)[i] \in Int
  BY <1>1, Reduced DEF Wire
<1>3. DOMAIN Wire(f, a) = 1..Len(a)
  BY DEF Wire
<1>4. Wire(f, a) \in [1..Len(a) -> Int]
  BY <1>2, <1>3 DEF Wire
<1>5. ASSUME f = "mixer_set_volume", Len(a) = 2
      PROVE  Wire(f, a)[2] \in 0..Byte - 1
  <2>1. 2 \in DOMAIN a /\ a[2] \in Int
    BY <1>5
  <2>2. Wire(f, a)[2] = a[2] % Byte
    BY <1>5, <2>1 DEF Wire
  <2>3. QED
    BY <2>1, <2>2, Reduced
<1>6. QED
  BY <1>4, <1>5

\* So a handler gives numbers to its manager, and keeps numbers that fit.
LEMMA StoredFits ==
  ASSUME NEW c, HasArguments(c)
  PROVE  Fits(Impl[c.f].set, Stored(c.f, Wire(c.f, c.a)))
<1> DEFINE f == c.f
           w == Wire(c.f, c.a)
           m == ManagerArgs(f, w)
<1>1. w \in Seq(Int) /\ Len(w) = Len(c.a)
  BY WireNumbers DEF HasArguments
<1>2. \A n : Position(n, RpcAudio) \in 0..11 /\ Position(n, RpcInput) \in 0..11
  BY PositionBound DEF RpcAudio, RpcInput
<1>3. m \in Seq(Int)
  <2>1. CASE f = "audio_set_state"
    BY <2>1, <1>2 DEF ManagerArgs
  <2>2. CASE f = "mixer_set_input_source"
    BY <2>2, <1>2 DEF ManagerArgs
  <2>3. CASE f = "backlight_enable"
    <3>1. w[1] \in Int
      BY <2>3, <1>1 DEF HasArguments, LooksAtFirst
    <3>2. w[1] % 2 \in Int
      BY <3>1, Reduced
    <3>3. m = <<w[1] % 2>>
      BY <2>3 DEF ManagerArgs
    <3>4. QED
      BY <3>2, <3>3
  <2>4. CASE f = "voip_login"
    <3>1. w[1] \in Int /\ w[2] \in Int /\ w[3] \in Int /\ w[4] \in Int
      BY <2>4, <1>1 DEF HasArguments
    <3>2. m = <<w[1], SipPort, w[3], w[4], w[2]>> /\ SipPort \in Int
      BY <2>4 DEF ManagerArgs, SipPort
    <3>3. QED
      BY <3>1, <3>2
  <2>5. CASE f \notin {"audio_set_state", "mixer_set_input_source", "backlight_enable", "voip_login"}
    BY <2>5, <1>1 DEF ManagerArgs
  <2>6. QED
    BY <2>1, <2>2, <2>3, <2>4, <2>5
<1>4. f \in Indexed => m = w /\ Len(w) >= 1
  BY <1>1 DEF ManagerArgs, Indexed, HasArguments, LooksAtFirst
<1>5. Proper(f, Impl[f])
  BY Tables DEF HasArguments
<1>6. Stored(f, w) \in Seq(Int)
  <2>1. (IF f \in Indexed THEN Tail(m) ELSE m) \in Seq(Int)
    BY <1>1, <1>3, <1>4
  <2>2. Impl[f].adds \in Seq(Int)
    BY <1>5 DEF Proper, ChangesOwn
  <2>3. QED
    BY <2>1, <2>2 DEF Stored
<1>7. CASE Impl[f].set = "audio_state"
  <2>1. f = "audio_set_state" /\ Impl[f].adds = <<>>
    BY <1>7, <1>5 DEF Proper, ChangesOwn, Converted
  <2>2. m = <<Position(w[1], RpcAudio)>>
    BY <2>1 DEF ManagerArgs
  <2>3. f \notin Indexed
    BY <2>1 DEF Indexed
  <2>4. Stored(f, w) = <<Position(w[1], RpcAudio)>> \o <<>>
    BY <2>1, <2>2, <2>3 DEF Stored
  <2>5. Stored(f, w)[1] \in 0..11
    BY <2>4, <1>2
  <2>6. QED
    BY <1>6, <1>7, <2>5 DEF Fits
<1>8. CASE Impl[f].set = "mixer_volume"
  <2>1. f = "mixer_set_volume" /\ Impl[f].adds = <<>>
    BY <1>8, <1>5 DEF Proper, ChangesOwn, Converted
  <2>2. Len(w) = 2 /\ w[2] \in 0..Byte - 1
    BY <2>1, <1>1, WireNumbers DEF HasArguments
  <2>3. f \in Indexed
    BY <2>1 DEF Indexed
  <2>4. Stored(f, w) = Tail(w) \o <<>>
    BY <2>1, <2>3, <1>4 DEF Stored
  <2>5. Stored(f, w) = <<w[2]>>
    <3>1. Tail(w) \in Seq(Int) /\ Len(Tail(w)) = 1 /\ Tail(w)[1] = w[2]
      BY <2>2, <1>1
    <3>2. <<w[2]>> \in Seq(Int) /\ Len(<<w[2]>>) = 1 /\ <<w[2]>>[1] = w[2]
      BY <2>2
    <3>3. \A i \in 1..Len(Tail(w)) : Tail(w)[i] = <<w[2]>>[i]
      BY <3>1
    <3>4. Tail(w) = <<w[2]>>
      BY <3>1, <3>2, <3>3, SeqEqual
    <3>5. QED
      BY <3>2, <3>4, <2>4
  <2>6. QED
    BY <1>6, <1>8, <2>2, <2>5 DEF Fits
<1>9. CASE Impl[f].set = "position"
  <2>1. f = "media_player_set_position" /\ Impl[f].adds = <<>>
    BY <1>9, <1>5 DEF Proper, ChangesOwn, Converted
  <2>2. Len(w) >= 1 /\ m = w /\ f \notin Indexed
    BY <2>1, <1>1 DEF ManagerArgs, Indexed, HasArguments, LooksAtFirst
  <2>3. Stored(f, w) = w \o <<>>
    BY <2>1, <2>2 DEF Stored
  <2>4. Stored(f, w)[1] \in Int
    BY <2>2, <2>3, <1>1
  <2>5. QED
    BY <1>6, <1>9, <2>4 DEF Fits
<1>10. CASE Impl[f].set \notin {"audio_state", "mixer_volume", "position"}
  <2>1. Impl[f].set \notin Converted
    BY <1>10, <1>5 DEF Proper, ChangesOwn
  <2>2. QED
    BY <2>1, <1>6 DEF Fits, Converted
<1>11. QED
  BY <1>7, <1>8, <1>9, <1>10

\* Settings that move by themselves keep fitting.
LEMMA OwnFits == \A s \in DOMAIN Own : \A v \in Own[s] : v \in Int /\ Fits(s, <<v>>)
<1> SUFFICES ASSUME NEW s \in DOMAIN Own, NEW v \in Own[s]
             PROVE  v \in Int /\ Fits(s, <<v>>)
  OBVIOUS
<1>1. Word + 1 \in Int
  BY WidthAssumption DEF WidthAssumption
<1>2. v \in Int
  BY <1>1 DEF Own
<1>3. <<v>> \in Seq(Int) /\ <<v>>[1] = v
  BY <1>2
<1>4. s = "audio_state" => v \in 0..11
  BY DEF Own
<1>5. s = "login_state" => v \in {0, 1}
  BY DEF Own
<1>6. s # "mixer_volume"
  BY DEF Own
<1>7. QED
  BY <1>2, <1>3, <1>4, <1>5, <1>6 DEF Fits

-----------------------------------------------------------------------------
(* What is reported and shown.                                             *)

\* Where the first eleven audio states of the manager end up.
LEMMA AudioNames ==
  \A n \in 0..11 :
    AudioStateName(Number(n, RpcAudio, RpcAudioUnknown)) =
      IF n \in 1..9 THEN n + 1 ELSE IF n = 0 THEN 1 ELSE 0
<1>1. \A i, j \in 1..10 : AudioStateMap[i] = AudioStateMap[j] => i = j
  BY DEF AudioStateMap
<1>2. DOMAIN AudioStateMap = 1..10
  BY DEF AudioStateMap
<1>3. \A i \in 1..10 : AudioStateName(AudioStateMap[i]) = i
  BY <1>1, <1>2 DEF AudioStateName, Position
<1>4. \A n \in 1..9 : RpcAudio[n] = AudioStateMap[n + 1] /\ Number(n, RpcAudio, RpcAudioUnknown) = RpcAudio[n]
  BY DEF RpcAudio, AudioStateMap, Number
<1>5. \A n \in 1..9 : AudioStateName(Number(n, RpcAudio, RpcAudioUnknown)) = n + 1
  BY <1>3, <1>4
<1>6. AudioStateName(Number(0, RpcAudio, RpcAudioUnknown)) = 1
  <2>1. Number(0, RpcAudio, RpcAudioUnknown) = AudioStateMap[1]
    BY DEF RpcAudio, AudioStateMap, Number, RpcAudioUnknown
  <2>2. QED
    BY <1>3, <2>1
<1>7. \A n \in {10, 11} : AudioStateName(Number(n, RpcAudio, RpcAudioUnknown)) = 0
  <2>1. Number(10, RpcAudio, RpcAudioUnknown) = 40 /\ Number(11, RpcAudio, RpcAudioUnknown) = 41
    BY DEF RpcAudio, Number
  <2>2. \A i \in 1..10 : AudioStateMap[i] # 40 /\ AudioStateMap[i] # 41
    BY DEF AudioStateMap
  <2>3. QED
    BY <1>2, <2>1, <2>2 DEF AudioStateName, Position
<1>8. QED
  BY <1>5, <1>6, <1>7

\* Numbers of an enumeration are numbers.
LEMMA NumberType == \A v : /\ Number(v, RpcAudio, RpcAudioUnknown) \in Int
                           /\ Number(v, RpcInput, 0) \in Int
                           /\ Number(v, RpcCard, RpcCardUnknown) \in Int
  BY WidthAssumption DEF WidthAssumption, Number, RpcAudio, RpcAudioUnknown, RpcInput, RpcCard, RpcCardUnknown

\* Names of audio states are positions.
LEMMA NameType == \A id : AudioStateName(id) \in Int
<1>1. \A id : Position(id, AudioStateMap) \in 0..11
  BY PositionBound DEF AudioStateMap
<1>2. QED
  BY <1>1 DEF AudioStateName

\* The queries that have properties of their own, or one answer only.
Apart == {"card_get_type", "modem_is_calling", "modem_is_connected"}

\* A setting that fits is reported in numbers, and shown in the client's terms.
LEMMA ShownInClientTerms ==
  ASSUME NEW f \in Function, NEW v, Fits(Impl[f].get, v)
  PROVE  /\ Reported(f, v) \in Seq(Int)
         /\ Display(f, Reported(f, v)) \in Seq(Int)
         /\ f \notin Apart => Display(f, Reported(f, v)) = InClientTerms(f, v)
<1>1. Proper(f, Impl[f])
  BY Tables
<1>2. v \in Seq(Int)
  BY DEF Fits
<1>3. \A n \in Int : <<n>> \in Seq(Int)
  OBVIOUS
<1>4. CASE f = "audio_get_state"
  <2> DEFINE n == Number(v[1], RpcAudio, RpcAudioUnknown)
  <2>1. v[1] \in 0..11
    BY <1>1, <1>4 DEF Proper, ReportsOwn, Fits
  <2>2. Reported(f, v) = <<n>>
    BY <1>4 DEF Reported
  <2>3. Display(f, Reported(f, v)) = <<AudioStateName(n)>>
    BY <1>4, <2>2 DEF Display
  <2>4. InClientTerms(f, v) = <<AudioStateName(n)>>
    BY <1>4, <2>1, AudioNames DEF InClientTerms
  <2>5. QED
    BY <1>3, <2>2, <2>3, <2>4, NumberType, NameType
<1>5. CASE f = "mixer_get_input_source"
  <2>1. Reported(f, v) = <<Number(v[1], RpcInput, 0)>>
    BY <1>5 DEF Reported
  <2>2. Display(f, Reported(f, v)) = Reported(f, v)
    BY <1>5 DEF Display
  <2>3. InClientTerms(f, v) = Reported(f, v)
    BY <1>5, <2>1, SameEnumerations DEF InClientTerms
  <2>4. QED
    BY <1>3, <2>1, <2>2, <2>3, NumberType
<1>6. CASE f = "mixer_get_volume"
  <2>1. PICK x \in 0..Byte - 1 : v = <<x>>
    BY <1>1, <1>6 DEF Proper, ReportsOwn, Fits
  <2>2. x % Byte = x
    BY WidthAssumption DEF WidthAssumption
  <2>3. Reported(f, v) = v
    BY <1>6, <2>1, <2>2 DEF Reported
  <2>4. QED
    BY <1>2, <1>6, <2>3 DEF Display, InClientTerms
<1>7. CASE f \in {"media_player_get_duration", "media_player_get_position"}
  <2>1. v[1] \in Int
    BY <1>1, <1>7 DEF Proper, ReportsOwn, Fits
  <2>2. Reported(f, v) = <<v[1] % Word>> /\ InClientTerms(f, v) = <<v[1] % Word>>
    BY <1>7 DEF Reported, InClientTerms
  <2>3. Display(f, Reported(f, v)) = Reported(f, v)
    BY <1>7 DEF Display
  <2>4. QED
    BY <1>3, <2>1, <2>2, <2>3, Reduced
<1>8. CASE f = "media_player_is_running"
  <2>1. Reported(f, v) = InClientTerms(f, v) /\ Reported(f, v) = <<IF v[1] = 1 THEN 1 ELSE 0>>
    BY <1>8 DEF Reported, InClientTerms, Playing
  <2>2. Reported(f, v) \in Seq(Int)
    BY <2>1
  <2>3. Display(f, Reported(f, v)) = Reported(f, v)
    BY <1>8 DEF Display
  <2>4. QED
    BY <2>1, <2>2, <2>3
<1>9. CASE f = "voip_still_logged_in"
  <2>1. v \in {<<0>>, <<1>>}
    BY <1>1, <1>9 DEF Proper, ReportsOwn, Fits
  <2>2. Reported(f, v) = <<IF v[1] = 1 THEN 1 ELSE 0>>
    BY <1>9 DEF Reported, LoggedIn
  <2>3. Reported(f, v) = v
    BY <2>1, <2>2
  <2>4. QED
    BY <1>2, <1>9, <2>3 DEF Display, InClientTerms
<1>10. CASE f = "card_get_type"
  <2>1. Reported(f, v) = <<Number(v[1], RpcCard, RpcCardUnknown)>>
    BY <1>10 DEF Reported
  <2>2. QED
    BY <1>3, <1>10, <2>1, NumberType DEF Display, Apart
<1>11. CASE f \in {"modem_is_calling", "modem_is_connected"}
  <2>1. Reported(f, v) = <<0>>
    BY <1>11 DEF Reported
  <2>2. QED
    BY <1>3, <1>11, <2>1 DEF Display, Apart
<1>12. CASE f \notin {"audio_get_state", "mixer_get_input_source", "mixer_get_volume", "media_player_get_duration",
                      "media_player_get_position", "media_player_is_running", "voip_still_logged_in",
                      "card_get_type", "modem_is_calling", "modem_is_connected"}
  <2>1. Reported(f, v) = v /\ InClientTerms(f, v) = v /\ Display(f, v) = v
    BY <1>12 DEF Reported, InClientTerms, Display
  <2>2. QED
    BY <1>2, <2>1
<1>13. QED
  BY <1>4, <1>5, <1>6, <1>7, <1>8, <1>9, <1>10, <1>11, <1>12

-----------------------------------------------------------------------------
(* The invariant.                                                          *)

\* Every setting fits.
Fitting == \A k \in Key : Fits(k[1], dev[k])

\* A reply that waits for the client shows what the handler of its call found.
ReplyIsReal ==
  link = "reply" /\ reply.ret = "ok" =>
    /\ held.f = Head(todo).f
    /\ Impl[held.f].get # "" =>
         /\ Display(held.f, reply.out) \in Seq(Int)
         /\ held.f \notin Apart => Display(held.f, reply.out) = InClientTerms(held.f, held.v)

RealInv == TypeOK /\ StepInv /\ Fitting /\ ReplyIsReal /\ ShownIsReal

\* Constants of the client are numbers.
LEMMA Outputs == Unset \in Seq(Int)
  BY DEF Unset

\* What a command returns and shows, put together.
LEMMA ResultType == ASSUME NEW s \in Statuses, NEW v \in Seq(Int)
                    PROVE  [status |-> s, shown |-> v] \in [status : Statuses, shown : Seq(Int)]
  OBVIOUS

\* Before the first command all of this holds.
LEMMA InitRealInv == Init => RealInv
<1> SUFFICES ASSUME Init
             PROVE  RealInv
  OBVIOUS
<1>1. StepInv
  BY InitStepInv
<1>2. <<1>> \in Seq(Int)
  OBVIOUS
<1>3. TypeOK
  <2>1. dev \in [Key -> Seq(Int)]
    BY <1>2 DEF Init
  <2>2. todo \in Seq(Calls) /\ cmd = Idle
    BY DEF Init
  <2>3. reply \in [ret : Statuses, out : Seq(Int)] /\ result \in [status : Statuses, shown : Seq(Int)]
    BY Outputs DEF Init, NoReply, Pending, Statuses
  <2>4. events \in 0..MaxEvents
    BY CommandsAssumption DEF Init, CommandsAssumption
  <2>5. QED
    BY <1>1, <2>1, <2>2, <2>3, <2>4 DEF TypeOK, StepInv
<1>4. Fitting
  <2>1. 1 \in 0..Byte - 1
    BY WidthAssumption DEF WidthAssumption
  <2>2. \A s : Fits(s, <<1>>)
    BY <1>2, <2>1 DEF Fits
  <2>3. QED
    BY <2>2 DEF Init, Fitting
<1>5. ReplyIsReal /\ ShownIsReal
  BY DEF Init, ReplyIsReal, ShownIsReal, Pending
<1>6. QED
  BY <1>1, <1>3, <1>4, <1>5 DEF RealInv

\* A command's calls are calls.
LEMMA StartCalls == ASSUME NEW i \in Invocation
                    PROVE  i.calls \in Seq(Calls) /\ i.verdict \in Statuses
<1>1. Queue(i.calls) /\ i.verdict \in Statuses
  BY InvocationWellFormed DEF WellFormed, Statuses
<1>2. \A j \in DOMAIN i.calls : i.calls[j] \in Calls
  BY DEF Calls
<1>3. CASE i.calls = <<>>
  BY <1>1, <1>3
<1>4. CASE \E c : i.calls = <<c>>
  BY <1>1, <1>2, <1>4
<1>5. CASE \E c, d : i.calls = <<c, d>>
  <2>1. PICK c, d : i.calls = <<c, d>>
    BY <1>5
  <2>2. 1 \in DOMAIN i.calls /\ 2 \in DOMAIN i.calls
    BY <2>1
  <2>3. c \in Calls /\ d \in Calls
    BY <2>1, <2>2, <1>2
  <2>4. QED
    BY <2>1, <2>3, <1>1
<1>6. QED
  BY <1>1, <1>3, <1>4, <1>5 DEF Queue

\* The handler of a call finds the setting it reports.
LEMMA SettingFound == ASSUME NEW c \in Calls, Impl[c.f].get # ""
                      PROVE  KeyOf(c.f, c.a, Impl[c.f].get) \in Key /\ KeyOf(c.f, c.a, Impl[c.f].get)[1] = Impl[c.f].get
<1> DEFINE k == KeyOf(c.f, c.a, Impl[c.f].get)
<1>1. k \in {KeyOf(c.f, c.a, s) : s \in {Impl[c.f].set, Impl[c.f].get} \ {""}}
  OBVIOUS
<1>2. k \in Key
  BY <1>1 DEF Key
<1>3. k[1] = Impl[c.f].get
  BY DEF KeyOf
<1>4. QED
  BY <1>2, <1>3

\* Giving a command.
LEMMA StartRealInv == ASSUME RealInv, NEW i \in Invocation, Start(i)
                      PROVE  TypeOK' /\ Fitting' /\ ReplyIsReal' /\ ShownIsReal'
<1> USE DEF Start
<1>1. StepInv'
  BY NextStepInv DEF RealInv, Next
<1>2. result' = [status |-> i.verdict, shown |-> Unset]
  BY DEF Pending
<1>3. result' \in [status : Statuses, shown : Seq(Int)]
  BY <1>2, StartCalls, Outputs, ResultType
<1>4. events' \in 0..MaxEvents
  BY CommandsAssumption DEF CommandsAssumption, RealInv, TypeOK
<1>5. TypeOK'
  BY <1>1, <1>3, <1>4, StartCalls DEF TypeOK, StepInv, RealInv
<1>6. Fitting'
  BY DEF RealInv, Fitting
<1>7. ReplyIsReal'
  BY DEF RealInv, StepInv, InStep, ReplyIsReal
<1>8. ShownIsReal'
  BY <1>2 DEF ShownIsReal
<1>9. QED
  BY <1>5, <1>6, <1>7, <1>8

\* Sending its request.
LEMMA SendRealInv == ASSUME RealInv, Send
                     PROVE  TypeOK' /\ Fitting' /\ ReplyIsReal' /\ ShownIsReal'
<1> USE DEF Send
<1>1. StepInv'
  BY NextStepInv DEF RealInv, Next
<1>2. TypeOK'
  BY <1>1 DEF RealInv, TypeOK, StepInv
<1>3. Fitting' /\ ReplyIsReal' /\ ShownIsReal'
  BY DEF RealInv, Fitting, ReplyIsReal, ShownIsReal
<1>4. QED
  BY <1>2, <1>3

\* A call that fails.
LEMMA AbortRealInv == ASSUME RealInv, NEW error \in Statuses, Abort(error)
                      PROVE  Fitting' /\ ReplyIsReal' /\ ShownIsReal' /\ (StepInv' => TypeOK')
<1> USE DEF Abort
<1>1. result' = [status |-> IF Forgiven(error) THEN "ok" ELSE error, shown |-> Unset]
  BY DEF Pending
<1>2. result' \in [status : Statuses, shown : Seq(Int)]
  <2>1. "ok" \in Statuses
    BY DEF Statuses
  <2>2. QED
    BY <1>1, <2>1, Outputs, ResultType
<1>3. reply' \in [ret : Statuses, out : Seq(Int)]
  BY Outputs DEF NoReply, Statuses
<1>4. ASSUME StepInv'
      PROVE  TypeOK'
  <2>1. todo' \in Seq(Calls)
    OBVIOUS
  <2>2. QED
    BY <1>2, <1>3, <1>4, <2>1 DEF RealInv, TypeOK, StepInv
<1>5. Fitting' /\ ReplyIsReal'
  BY DEF RealInv, Fitting, ReplyIsReal
<1>6. result'.shown = Unset
  BY <1>1
<1>7. ShownIsReal'
  BY <1>6 DEF ShownIsReal
<1>8. QED
  BY <1>4, <1>5, <1>7

\* A call that returns.
LEMMA ReturnRealInv == ASSUME RealInv, Return
                       PROVE  TypeOK' /\ Fitting' /\ ReplyIsReal' /\ ShownIsReal'
<1> USE DEF Return
<1> DEFINE c == Head(todo)
<1>1. StepInv'
  BY NextStepInv DEF RealInv, Next
<1>2. todo # <<>> /\ HasArguments(c)
  BY QueueTail DEF RealInv, StepInv, InStep
<1>3. held.f = c.f /\ c.f # "none"
  BY <1>2, NoneIsNoFunction DEF RealInv, ReplyIsReal, HasArguments
<1>4. result' = result \/ result'.shown = Unset \/ (Impl[c.f].get # "" /\ result'.shown = Display(c.f, reply.out))
  OBVIOUS
<1>5. result' \in [status : Statuses, shown : Seq(Int)]
  <2>1. CASE Tail(todo) = <<>> /\ Impl[c.f].get # ""
    BY <2>1, <1>3 DEF RealInv, ReplyIsReal, Statuses
  <2>2. CASE Tail(todo) = <<>> /\ Impl[c.f].get = ""
    BY <2>2, Outputs DEF Statuses
  <2>3. CASE Tail(todo) # <<>>
    BY <2>3 DEF RealInv, TypeOK
  <2>4. QED
    BY <2>1, <2>2, <2>3
<1>6. reply' \in [ret : Statuses, out : Seq(Int)]
  BY Outputs DEF NoReply, Statuses
<1>7. todo' \in Seq(Calls)
  <2>1. todo \in Seq(Calls) /\ todo' = Tail(todo)
    BY DEF RealInv, TypeOK
  <2>2. QED
    BY <1>2, <2>1, HeadTailProperties
<1>8. TypeOK'
  BY <1>1, <1>5, <1>6, <1>7 DEF RealInv, TypeOK, StepInv
<1>9. Fitting' /\ ReplyIsReal'
  BY DEF RealInv, Fitting, ReplyIsReal
<1>10. result.shown = Unset
  <2>1. result = Pending
    BY <1>2 DEF RealInv, StepInv, InStep
  <2>2. QED
    BY <2>1 DEF Pending
<1>11. ShownIsReal'
  <2>1. CASE result'.shown = Unset
    BY <2>1 DEF ShownIsReal
  <2>2. CASE Impl[c.f].get # "" /\ result'.shown = Display(c.f, reply.out)
    BY <2>2, <1>3 DEF RealInv, ReplyIsReal, ShownIsReal, Apart
  <2>3. QED
    BY <1>4, <1>10, <2>1, <2>2
<1>12. QED
  BY <1>8, <1>9, <1>11

\* A handler that succeeds.
LEMMA ServeRealInv == ASSUME RealInv, Serve
                      PROVE  TypeOK' /\ Fitting' /\ ReplyIsReal' /\ ShownIsReal'
<1> DEFINE c == Head(todo)
           h == Impl[c.f]
           a == Wire(c.f, c.a)
           old == dev[KeyOf(c.f, a, h.get)]
<1>1. StepInv'
  BY NextStepInv DEF RealInv, Next
<1>2. todo # <<>> /\ HasArguments(c) /\ c \in Calls
  <2>1. todo # <<>>
    BY DEF Serve, RealInv, StepInv, InStep
  <2>2. QED
    BY <2>1, QueueTail DEF RealInv, StepInv, TypeOK
<1>3. /\ link' = "reply"
      /\ reply' = [ret |-> "ok", out |-> IF h.get = "" THEN Unset ELSE Reported(c.f, old)]
      /\ held' = [f |-> c.f, v |-> IF h.get = "" THEN Unset ELSE old]
      /\ dev' = IF h.set = "" THEN dev ELSE [dev EXCEPT ![KeyOf(c.f, a, h.set)] = Stored(c.f, a)]
      /\ UNCHANGED <<cmd, todo, result, events>>
  BY DEF Serve, Answer, Arguments
<1>4. Fits(h.set, Stored(c.f, a)) /\ Stored(c.f, a) \in Seq(Int)
  BY <1>2, StoredFits DEF Fits
<1>5. KeyOf(c.f, a, h.set)[1] = h.set
  BY DEF KeyOf
<1>6. dev' \in [Key -> Seq(Int)]
  BY <1>3, <1>4 DEF RealInv, TypeOK
<1>7. Fitting'
  <2>1. \A k \in Key : dev'[k] = dev[k] \/ (k[1] = h.set /\ dev'[k] = Stored(c.f, a))
    BY <1>3, <1>5 DEF RealInv, TypeOK
  <2>2. \A k \in Key : Fits(k[1], dev'[k])
    BY <2>1, <1>4 DEF RealInv, Fitting
  <2>3. QED
    BY <2>2 DEF Fitting
<1>8. c.f \in Function
  BY <1>2 DEF HasArguments
<1>9. h.get # "" => Fits(h.get, old)
  <2>1. KeyOf(c.f, a, h.get) = KeyOf(c.f, c.a, h.get)
    BY <1>2, SameKey
  <2>2. QED
    BY <1>2, <2>1, SettingFound DEF RealInv, Fitting
<1>10. reply' \in [ret : Statuses, out : Seq(Int)]
  <2>1. CASE h.get = ""
    BY <2>1, <1>3, Outputs DEF Statuses
  <2>2. CASE h.get # ""
    <3>1. Reported(c.f, old) \in Seq(Int)
      BY <2>2, <1>8, <1>9, ShownInClientTerms
    <3>2. QED
      BY <2>2, <1>3, <3>1 DEF Statuses
  <2>3. QED
    BY <2>1, <2>2
<1>11. TypeOK'
  BY <1>1, <1>3, <1>6, <1>10 DEF RealInv, TypeOK, StepInv
<1>12. ReplyIsReal'
  <2>1. CASE h.get = ""
    BY <2>1, <1>3 DEF ReplyIsReal
  <2>2. CASE h.get # ""
    <3>1. /\ Display(c.f, Reported(c.f, old)) \in Seq(Int)
          /\ c.f \notin Apart => Display(c.f, Reported(c.f, old)) = InClientTerms(c.f, old)
      BY <2>2, <1>8, <1>9, ShownInClientTerms
    <3>2. QED
      BY <2>2, <1>3, <3>1 DEF ReplyIsReal
  <2>3. QED
    BY <2>1, <2>2
<1>13. ShownIsReal'
  <2>1. result' = Pending
    BY <1>2, <1>3 DEF RealInv, StepInv, InStep
  <2>2. result'.shown = Unset
    BY <2>1 DEF Pending
  <2>3. QED
    BY <2>2 DEF ShownIsReal
<1>14. QED
  BY <1>7, <1>11, <1>12, <1>13

\* A handler that fails.
LEMMA ServeErrorRealInv == ASSUME RealInv, ServeError
                           PROVE  TypeOK' /\ Fitting' /\ ReplyIsReal' /\ ShownIsReal'
<1>1. StepInv'
  BY NextStepInv DEF RealInv, Next
<1>2. PICK e \in {"EBUSY", "EFAULT", "ENOSYS", "EINVAL"} : Answer(e, Unset)
  BY Refusals DEF ServeError
<1>3. reply' \in [ret : Statuses, out : Seq(Int)] /\ reply'.ret # "ok"
  BY <1>2, Outputs DEF Answer, Statuses
<1>4. TypeOK'
  BY <1>1, <1>3 DEF ServeError, RealInv, TypeOK, StepInv
<1>5. Fitting' /\ ReplyIsReal' /\ ShownIsReal'
  BY <1>3 DEF ServeError, RealInv, Fitting, ReplyIsReal, ShownIsReal
<1>6. QED
  BY <1>4, <1>5

\* A setting that moves.
LEMMA MoveRealInv == ASSUME RealInv, NEW s \in DOMAIN Own, NEW v \in Own[s], Move(s, v)
                     PROVE  TypeOK' /\ Fitting' /\ ReplyIsReal' /\ ShownIsReal'
<1> USE DEF Move
<1>1. StepInv'
  BY NextStepInv DEF RealInv, Next
<1>2. Fits(s, <<v>>) /\ <<v>> \in Seq(Int)
  BY OwnFits DEF Fits
<1>3. dev' \in [Key -> Seq(Int)]
  BY <1>2 DEF RealInv, TypeOK
<1>4. events' \in 0..MaxEvents
  BY CommandsAssumption DEF CommandsAssumption, RealInv, TypeOK
<1>5. TypeOK'
  BY <1>1, <1>3, <1>4 DEF RealInv, TypeOK, StepInv
<1>6. Fitting'
  <2>1. \A k \in Key : dev'[k] = dev[k] \/ (k[1] = s /\ dev'[k] = <<v>>)
    BY DEF RealInv, TypeOK
  <2>2. QED
    BY <2>1, <1>2 DEF RealInv, Fitting
<1>7. ReplyIsReal' /\ ShownIsReal'
  BY DEF RealInv, ReplyIsReal, ShownIsReal
<1>8. QED
  BY <1>5, <1>6, <1>7

\* Each step keeps the invariant.
LEMMA NextRealInv == RealInv /\ [Next]_vars => RealInv'
<1> SUFFICES ASSUME RealInv, [Next]_vars
             PROVE  RealInv'
  OBVIOUS
<1>1. StepInv'
  BY NextStepInv DEF RealInv
<1> DEFINE Rest == TypeOK' /\ Fitting' /\ ReplyIsReal' /\ ShownIsReal'
<1>2. ASSUME NEW i \in Invocation, Start(i)
      PROVE  Rest
  BY <1>2, StartRealInv
<1>3. ASSUME Send
      PROVE  Rest
  BY <1>3, SendRealInv
<1>4. ASSUME Lose
      PROVE  Rest
  <2>1. "EIO" \in Statuses
    BY DEF Statuses
  <2>2. QED
    BY <1>1, <1>4, <2>1, AbortRealInv DEF Lose
<1>5. ASSUME Return
      PROVE  Rest
  BY <1>5, ReturnRealInv
<1>6. ASSUME ReturnError
      PROVE  Rest
  <2>1. reply.ret \in Statuses
    BY DEF RealInv, TypeOK
  <2>2. QED
    BY <1>1, <1>6, <2>1, AbortRealInv DEF ReturnError
<1>7. ASSUME Serve
      PROVE  Rest
  BY <1>7, ServeRealInv
<1>8. ASSUME ServeError
      PROVE  Rest
  BY <1>8, ServeErrorRealInv
<1>9. ASSUME NEW s \in DOMAIN Own, NEW v \in Own[s], Move(s, v)
      PROVE  Rest
  BY <1>9, MoveRealInv
<1>10. ASSUME UNCHANGED vars
       PROVE  Rest
  BY <1>10 DEF vars, RealInv, TypeOK, InStep, Fitting, ReplyIsReal, ShownIsReal
<1>11. Rest
  BY <1>2, <1>3, <1>4, <1>5, <1>6, <1>7, <1>8, <1>9, <1>10 DEF Next
<1>12. QED
  BY <1>1, <1>11 DEF RealInv

\* Types: settings, arguments and replies are numbers, and what is under way
\* belongs to a command that has not returned.
THEOREM TypeCorrect == Spec => []TypeOK
<1>1. RealInv => TypeOK
  BY DEF RealInv
<1>2. QED
  BY InitRealInv, NextRealInv, <1>1, PTL DEF Spec

\* What a command shows is what the manager said during that very call.
THEOREM WhatIsShownIsReal == Spec => []ShownIsReal
<1>1. RealInv => ShownIsReal
  BY DEF RealInv
<1>2. QED
  BY InitRealInv, NextRealInv, <1>1, PTL DEF Spec

-----------------------------------------------------------------------------
(* Numbers that commands check.                                            *)

Checked == {"audio-volume", "mixer-volume", "backlight-brightness"}

\* The handlers these commands call store what they are given, or nothing, in a
\* setting that does not move by itself.
StoresOwn(f, h) ==
  /\ f = "audio_set_volume" => h = Sets("volume")
  /\ f = "mixer_set_volume" => h = Sets("mixer_volume")
  /\ f = "backlight_set" => h = Sets("brightness")
  /\ f \in {"audio_get_volume", "mixer_get_volume", "backlight_get"} => h.set = ""

Setters == {"audio_set_volume", "mixer_set_volume", "backlight_set"}
Getters == {"audio_get_volume", "mixer_get_volume", "backlight_get"}

\* So the tables have it.
LEMMA CheckedHandlers == \A f \in Function : StoresOwn(f, Impl[f])
<1>0. /\ StoresOwn("audio_set_volume", Sets("volume"))
      /\ StoresOwn("mixer_set_volume", Sets("mixer_volume"))
      /\ StoresOwn("backlight_set", Sets("brightness"))
      /\ \A f, s : f \notin Setters => StoresOwn(f, Gets(s))
      /\ \A f, h : f \notin Setters \cup Getters => StoresOwn(f, h)
  <2>1. \A s : Gets(s).set = ""
    BY DEF Gets, Setting
  <2>2. QED
    BY <2>1 DEF StoresOwn, Setters, Getters
<1>1. \A f \in DOMAIN AudioImpl : StoresOwn(f, AudioImpl[f])
  BY <1>0 DEF AudioImpl, Setters, Getters
<1>2. \A f \in DOMAIN MixerImpl : StoresOwn(f, MixerImpl[f])
  BY <1>0 DEF MixerImpl, Setters, Getters
<1>3. \A f \in DOMAIN BacklightImpl : StoresOwn(f, BacklightImpl[f])
  BY <1>0 DEF BacklightImpl, Setters, Getters
<1>4. /\ \A f \in DOMAIN HandsetImpl : StoresOwn(f, HandsetImpl[f])
      /\ \A f \in DOMAIN MediaPlayerImpl : StoresOwn(f, MediaPlayerImpl[f])
      /\ \A f \in DOMAIN ModemImpl : StoresOwn(f, ModemImpl[f])
      /\ \A f \in DOMAIN VoipImpl : StoresOwn(f, VoipImpl[f])
      /\ \A f \in DOMAIN CardImpl : StoresOwn(f, CardImpl[f])
      /\ \A f \in DOMAIN SoundImpl : StoresOwn(f, SoundImpl[f])
      /\ \A f \in DOMAIN TaskManagerImpl : StoresOwn(f, TaskManagerImpl[f])
      /\ \A f \in DOMAIN LldpImpl : StoresOwn(f, LldpImpl[f])
      /\ \A f \in DOMAIN TunerImpl : StoresOwn(f, TunerImpl[f])
  BY DEF StoresOwn, HandsetImpl, MediaPlayerImpl, ModemImpl, VoipImpl, CardImpl, SoundImpl, TaskManagerImpl,
    LldpImpl, TunerImpl
<1>5. \A m \in Managers : \A f \in DOMAIN m : StoresOwn(f, m[f])
  BY <1>1, <1>2, <1>3, <1>4 DEF Managers
<1>6. ASSUME NEW f \in Function
      PROVE  \E m \in Managers : f \in DOMAIN m /\ Impl[f] = m[f]
  BY DEF Function, Impl
<1>7. QED
  BY <1>5, <1>6

\* A checked command makes one call, and what its handler stores is the number.
OneNumber(i) ==
  \E c : /\ i.calls = <<c>>
         /\ c.f # "mixer_loopback_enable"
         /\ Impl[c.f].set # "" =>
              /\ Impl[c.f].set \notin DOMAIN Own
              /\ i.number < Word => Stored(c.f, Wire(c.f, c.a)) = <<i.number>>

Faithful(i) == i.name \in Checked /\ i.calls # <<>> => OneNumber(i)

\* Ways to write a command that is not checked, or makes no call.
LEMMA OtherForms ==
  /\ \A name : Faithful(Rejects(name))
  /\ \A name, n : Faithful(Command(name, <<>>, n, "ok"))
  /\ \A name, calls : name \notin Checked => Faithful(Runs(name, calls))
  /\ \A name, n, f, a : name \notin Checked => Faithful(Gives(name, n, f, a))
  /\ \A name, f, a : name \notin Checked => Faithful(Shows(name, f, a))
  BY DEF Faithful, Rejects, Runs, Gives, Shows, Command

\* A command that only shows something.
LEMMA ShowsFaithful ==
  ASSUME NEW f \in Getters, NEW name, NEW a
  PROVE  Faithful(Shows(name, f, a))
<1>1. Impl[f].set = ""
  BY CheckedHandlers, Functions DEF StoresOwn, Getters
<1>2. Shows(name, f, a).calls = <<Call(f, a)>> /\ Call(f, a).f = f
  BY DEF Shows, Runs, Command, Call
<1>3. OneNumber(Shows(name, f, a))
  BY <1>1, <1>2 DEF OneNumber, Getters
<1>4. QED
  BY <1>3 DEF Faithful

\* A command that gives a number below 2^8, if it is below 2^32.
LEMMA GivesFaithful ==
  ASSUME NEW name, NEW n \in Nat, n < Word => n < Byte, NEW f, NEW a,
         \/ f \in {"audio_set_volume", "backlight_set"} /\ a = <<n>>
         \/ f = "mixer_set_volume" /\ \E x \in Int : a = <<x, n>>
  PROVE  Faithful(Gives(name, n, f, a))
<1>1. /\ Gives(name, n, f, a).calls = <<Call(f, a)>>
      /\ Gives(name, n, f, a).number = n
      /\ Call(f, a).f = f
      /\ Call(f, a).a = a
  BY DEF Gives, Command, Call
<1>2. Impl[f] \in {Sets("volume"), Sets("brightness"), Sets("mixer_volume")}
  BY CheckedHandlers, Functions DEF StoresOwn
<1>3. Impl[f].adds = <<>> /\ Impl[f].set \notin DOMAIN Own
  <2>1. \A s : Sets(s).adds = <<>> /\ Sets(s).set = s
    BY DEF Sets, Setting
  <2>2. DOMAIN Own = {"audio_state", "input", "card_type", "player", "login_state", "duration", "position", "caller"}
    BY DEF Own
  <2>3. Impl[f].set \in {"volume", "brightness", "mixer_volume"} /\ Impl[f].adds = <<>>
    BY <1>2, <2>1
  <2>4. QED
    BY <2>2, <2>3
<1>4. n < Word => n % Byte = n
  BY WidthAssumption DEF WidthAssumption
<1>5. ASSUME n < Word
      PROVE  Stored(f, Wire(f, a)) = <<n>>
  <2>1. CASE f \in {"audio_set_volume", "backlight_set"} /\ a = <<n>>
    <3>1. Wire(f, a) = <<n>>
      BY <1>4, <1>5, <2>1 DEF Wire
    <3>2. ManagerArgs(f, Wire(f, a)) = <<n>> /\ f \notin Indexed
      BY <2>1, <3>1 DEF ManagerArgs, Indexed
    <3>3. QED
      BY <1>3, <3>2 DEF Stored
  <2>2. CASE f = "mixer_set_volume" /\ \E x \in Int : a = <<x, n>>
    <3>1. PICK x \in Int : a = <<x, n>>
      BY <2>2
    <3>2. Wire(f, a) = <<x, n>>
      BY <1>4, <1>5, <2>2, <3>1 DEF Wire
    <3>3. ManagerArgs(f, Wire(f, a)) = <<x, n>> /\ f \in Indexed
      BY <2>2, <3>2 DEF ManagerArgs, Indexed
    <3>4. Stored(f, Wire(f, a)) = Tail(<<x, n>>) \o <<>>
      BY <1>3, <3>3 DEF Stored
    <3>5. QED
      BY <3>4
  <2>3. QED
    BY <2>1, <2>2
<1>6. OneNumber(Gives(name, n, f, a))
  <2>1. f # "mixer_loopback_enable"
    OBVIOUS
  <2>2. QED
    BY <1>1, <1>3, <1>5, <2>1 DEF OneNumber
<1>7. QED
  BY <1>6 DEF Faithful

\* A command's number is not negative.
LEMMA TypedNumbers == \A n \in Typed : n \in Nat
  BY CommandsAssumption DEF CommandsAssumption

\* The commands of commands.c:72-163.
LEMMA AudioFaithful == \A i \in AudioCommands : Faithful(i)
<1>1. ASSUME NEW n \in Typed
      PROVE  Faithful(AudioVolume(n))
  <2>1. CASE n % Word < Byte
    <3>1. n < Word => n < Byte
      BY <2>1, TypedNumbers, WidthAssumption DEF WidthAssumption
    <3>2. AudioVolume(n) = Gives("audio-volume", n, "audio_set_volume", <<n>>)
      BY <2>1 DEF AudioVolume
    <3>3. QED
      BY <3>1, <3>2, TypedNumbers, GivesFaithful
  <2>2. CASE ~(n % Word < Byte)
    BY <2>2, OtherForms DEF AudioVolume
  <2>3. QED
    BY <2>1, <2>2
<1>2. \A n : Faithful(Runs("audio-state", <<Call("audio_set_state", <<ParseAudioState(n), 1>>)>>))
  BY OtherForms DEF Checked
<1>3. /\ Faithful(Shows("audio-volume", "audio_get_volume", <<>>))
      /\ Faithful(Shows("audio-state", "audio_get_state", <<>>))
  BY ShowsFaithful, OtherForms DEF Checked, Getters
<1>4. QED
  BY <1>1, <1>2, <1>3 DEF AudioCommands

\* The commands of commands.c:172-355.
LEMMA MixerFaithful == \A i \in MixerCommands : Faithful(i)
<1> DEFINE SetVolume == {MixerVolume(c, n) : c \in Control, n \in Typed}
           GetVolume == {Shows("mixer-volume", "mixer_get_volume", <<c>>) : c \in Control}
           SetMute   == {MixerMute(c, b) : c \in Control, b \in Switch}
           IsMuted   == {Shows("mixer-mute", "mixer_is_muted", <<c>>) : c \in Control}
           SetInput  == {Runs("mixer-input", <<Call("mixer_set_input_source", <<i>>)>>) : i \in Input}
           Loopback  == {Runs("mixer-loopback", <<Call("mixer_loopback_enable", <<b>>)>>) : b \in Switch}
           Others    == {Shows("mixer-input", "mixer_get_input_source", <<>>),
                         Shows("mixer-loopback", "mixer_loopback_is_enabled", <<>>),
                         Rejects("mixer-volume"), Rejects("mixer-mute"), Rejects("mixer-loopback")}
<1>1. \A i \in SetVolume : Faithful(i)
  <2> SUFFICES ASSUME NEW c \in Control, NEW n \in Typed
               PROVE  Faithful(MixerVolume(c, n))
    OBVIOUS
  <2>1. CASE n < Byte
    <3>1. MixerVolume(c, n) = Gives("mixer-volume", n, "mixer_set_volume", <<c, n>>)
      BY <2>1 DEF MixerVolume
    <3>2. \E x \in Int : <<c, n>> = <<x, n>>
      BY DEF Control
    <3>3. QED
      BY <2>1, <3>1, <3>2, TypedNumbers, GivesFaithful
  <2>2. CASE ~(n < Byte)
    BY <2>2, OtherForms DEF MixerVolume
  <2>3. QED
    BY <2>1, <2>2
<1>2. \A i \in GetVolume : Faithful(i)
  BY ShowsFaithful DEF Getters
<1>3. \A i \in SetMute : Faithful(i)
  <2>1. \A c, b : Faithful(MixerMute(c, b))
    BY OtherForms DEF Checked, MixerMute
  <2>2. QED
    BY <2>1
<1>4. \A i \in IsMuted \cup SetInput \cup Loopback : Faithful(i)
  BY OtherForms DEF Checked
<1>5. \A i \in Others : Faithful(i)
  BY OtherForms DEF Checked
<1>6. MixerCommands = SetVolume \cup GetVolume \cup SetMute \cup IsMuted \cup SetInput \cup Loopback \cup Others
  BY DEF MixerCommands
<1> HIDE DEF SetVolume, GetVolume, SetMute, IsMuted, SetInput, Loopback, Others
<1>7. QED
  BY <1>1, <1>2, <1>3, <1>4, <1>5, <1>6

\* The commands of commands.c:360-440.
LEMMA BacklightFaithful == \A i \in BacklightCommands : Faithful(i)
<1>1. \A b : Faithful(Runs("backlight-power", <<Call("backlight_enable", <<b>>)>>))
  BY OtherForms DEF Checked
<1>2. ASSUME NEW n \in Typed, n < Byte
      PROVE  Faithful(Gives("backlight-brightness", n, "backlight_set", <<n>>))
  BY <1>2, TypedNumbers, GivesFaithful
<1>3. Faithful(Shows("backlight-brightness", "backlight_get", <<>>))
  BY ShowsFaithful DEF Getters
<1>4. QED
  BY <1>1, <1>2, <1>3, OtherForms DEF BacklightCommands

\* The other commands check no number.
LEMMA OthersFaithful ==
  \A i \in SoundCommands \cup ModemCommands \cup VoipCommands \cup OtherCommands : Faithful(i)
<1>1. \A i \in SoundCommands : Faithful(i)
  BY OtherForms DEF Checked, SoundCommands
<1>2. \A i \in ModemCommands : Faithful(i)
  BY OtherForms DEF Checked, ModemCommands
<1>3. \A i \in VoipCommands : Faithful(i)
  BY OtherForms DEF Checked, VoipCommands, VoipDtmf
<1>4. \A i \in OtherCommands : Faithful(i)
  BY OtherForms DEF Checked, OtherCommands, SmartcardRead, LldpDump
<1>5. QED
  BY <1>1, <1>2, <1>3, <1>4

\* Nor do those of commands.c:480-789.
LEMMA MediaPlayerFaithful == \A i \in MediaPlayerCommands : Faithful(i)
<1> DEFINE Uri    == {MediaPlayerUri(u) : u \in Text}
           Output == {Window(n, words) : n \in Typed, words \in 0..4}
           Play   == {Runs("media-player-play",
                        <<Call("media_player_set_stream", <<u>>), Call("media_player_start", <<>>)>>) : u \in Text}
           Seek   == {MediaPlayerPosition(n) : n \in Typed}
           Others == {Runs("media-player-play", <<Call("media_player_start", <<>>)>>),
                      Runs("media-player-stop", <<Call("media_player_stop", <<>>)>>),
                      Runs("media-player-pause", <<Call("media_player_pause", <<>>)>>),
                      Runs("media-player-resume", <<Call("media_player_resume", <<>>)>>),
                      Shows("media-player-uri", "media_player_get_stream", <<>>),
                      Shows("media-player-duration", "media_player_get_duration", <<>>),
                      Shows("media-player-position", "media_player_get_position", <<>>),
                      MediaPlayerState,
                      Rejects("media-player-position")}
<1>1. \A i \in Uri : Faithful(i)
  BY OtherForms DEF Checked, MediaPlayerUri
<1>2. \A i \in Output : Faithful(i)
  <2>1. \A n, words : Faithful(Window(n, words))
    BY OtherForms DEF Checked, Window
  <2>2. QED
    BY <2>1
<1>3. \A i \in Play : Faithful(i)
  BY OtherForms DEF Checked
<1>4. \A i \in Seek : Faithful(i)
  BY OtherForms DEF Checked, MediaPlayerPosition
<1>5. \A i \in Others : Faithful(i)
  BY OtherForms DEF Checked, MediaPlayerState
<1>6. MediaPlayerCommands = Uri \cup Output \cup Play \cup Seek \cup Others
  BY DEF MediaPlayerCommands
<1> HIDE DEF Uri, Output, Play, Seek, Others
<1>7. QED
  BY <1>1, <1>2, <1>3, <1>4, <1>5, <1>6

\* Nor those of commands.c:969-1058.
LEMMA TaskFaithful == \A i \in TaskCommands : Faithful(i)
<1> DEFINE Exec == {Shows("task-exec", "task_manager_exec", <<t>>) : t \in Text}
           Kill == {TaskKill(pid, sig) : pid \in Typed, sig \in Typed \cup {SIGTERM}}
<1>1. \A i \in Exec : Faithful(i)
  BY OtherForms DEF Checked
<1>2. \A i \in Kill : Faithful(i)
  <2>1. \A pid, sig : Faithful(TaskKill(pid, sig))
    BY OtherForms DEF Checked, TaskKill
  <2>2. QED
    BY <2>1
<1>3. TaskCommands = Exec \cup Kill \cup {Rejects("task-exec"), Rejects("task-kill")}
  BY DEF TaskCommands
<1> HIDE DEF Exec, Kill
<1>4. QED
  BY <1>1, <1>2, <1>3, OtherForms

\* Nor those of commands.c:1283-1459.
LEMMA HandsetFaithful == \A i \in HandsetCommands : Faithful(i)
<1> DEFINE Light  == {HandsetBacklight(n, f) :
                        n \in Typed, f \in {"handset_display_set_brightness", "handset_keypad_set_brightness"}}
           Shown  == {Runs("handset-show-icon", <<Call("handset_show_icon", <<i>>)>>) : i \in Icon}
           Texts  == {HandsetShowText(x, y, t) :
                        x \in Typed \cup {8}, y \in Typed \cup {48}, t \in Text}
           Others == {Runs("handset-display-clear", <<Call("handset_display_clear", <<>>)>>),
                      Runs("handset-display-sync", <<Call("handset_display_sync", <<>>)>>),
                      Rejects("handset-backlight"), Rejects("handset-show-icon"), Rejects("handset-show-text")}
<1>1. \A i \in Light : Faithful(i)
  <2>1. \A n, f : Faithful(HandsetBacklight(n, f))
    BY OtherForms DEF Checked, HandsetBacklight
  <2>2. QED
    BY <2>1
<1>2. \A i \in Shown \cup Others : Faithful(i)
  BY OtherForms DEF Checked
<1>3. \A i \in Texts : Faithful(i)
  <2>1. \A x, y, t : Faithful(HandsetShowText(x, y, t))
    BY OtherForms DEF Checked, HandsetShowText
  <2>2. QED
    BY <2>1
<1>4. HandsetCommands = Light \cup Shown \cup Texts \cup Others
  BY DEF HandsetCommands
<1> HIDE DEF Light, Shown, Texts, Others
<1>5. QED
  BY <1>1, <1>2, <1>3, <1>4

\* Nor the functions of the library that no command calls.
LEMMA LibraryFaithful == \A i \in LibraryCalls : Faithful(i)
<1>1. \A f, a : Faithful(Application(f, a))
  BY OtherForms DEF Checked, Application
<1>2. \A n, t : Faithful(HideText(n, t))
  BY <1>1 DEF HideText
<1> DEFINE Write == {Application("card_write", <<0, t>>) : t \in Text}
           Hide  == {Application("handset_hide_icon", <<i>>) : i \in Icon}
           Erase == {HideText(n, t) : n \in Typed, t \in Text}
           Crop  == {Application("media_player_set_crop", <<n, n, n, n>>) : n \in Typed}
           Query == {Application(f, <<>>) :
                       f \in {"card_get_type", "voip_still_logged_in", "modem_is_calling", "modem_is_connected"}}
<1>3. (\A i \in Write : Faithful(i)) /\ (\A i \in Hide : Faithful(i)) /\ (\A i \in Query : Faithful(i))
  BY <1>1
<1>4. (\A i \in Erase : Faithful(i)) /\ (\A i \in Crop : Faithful(i))
  <2>1. \A i \in Erase : Faithful(i)
    BY <1>2
  <2>2. \A i \in Crop : Faithful(i)
    BY <1>1
  <2>3. QED
    BY <2>1, <2>2
<1>5. LibraryCalls = Write \cup Hide \cup Erase \cup Crop \cup Query
  BY DEF LibraryCalls
<1> HIDE DEF Write, Hide, Erase, Crop, Query
<1>6. QED
  BY <1>3, <1>4, <1>5

\* So every command that checks a number passes on just that number.
LEMMA InvocationFaithful == \A i \in Invocation : Faithful(i)
  BY AudioFaithful, MixerFaithful, BacklightFaithful, MediaPlayerFaithful, TaskFaithful, HandsetFaithful,
     OthersFaithful, LibraryFaithful DEF Invocation

-----------------------------------------------------------------------------
(* The number arrives.                                                     *)

\* A checked command that has not returned makes its one call; once that has
\* succeeded the setting has the value the call gave it.
Stays ==
  todo # <<>> /\ cmd.name \in Checked =>
    /\ todo = cmd.calls
    /\ OneNumber(cmd)
    /\ link = "reply" /\ reply.ret = "ok" /\ Impl[Head(todo).f].set # "" =>
         dev[KeyOf(Head(todo).f, Arguments, Impl[Head(todo).f].set)] = Stored(Head(todo).f, Arguments)

\* The handler of a call finds the setting it changes.
LEMMA PlaceFound == ASSUME NEW c \in Calls, Impl[c.f].set # ""
                    PROVE  KeyOf(c.f, c.a, Impl[c.f].set) \in Key
<1>1. KeyOf(c.f, c.a, Impl[c.f].set) \in {KeyOf(c.f, c.a, s) : s \in {Impl[c.f].set, Impl[c.f].get} \ {""}}
  OBVIOUS
<1>2. QED
  BY <1>1 DEF Key

\* The call under way has the arguments its handler looks at.
LEMMA FirstCall == ASSUME RealInv, todo # <<>>
                   PROVE  Head(todo) \in Calls /\ HasArguments(Head(todo))
<1>1. Queue(todo) /\ todo \in Seq(Calls)
  BY DEF RealInv, StepInv, TypeOK
<1>2. HasArguments(Head(todo))
  BY <1>1, QueueTail
<1>3. Head(todo) \in Calls
  BY <1>1, HeadTailProperties
<1>4. QED
  BY <1>2, <1>3

\* The head of a sequence of one.
LEMMA FirstOfOne == \A x : Head(<<x>>) = x
  OBVIOUS

\* At first no command makes calls.
LEMMA InitStays == Init => Stays
  BY DEF Init, Stays

\* Requests and replies do not touch the settings, and the handler stores what
\* it is given.
LEMMA NextStays == RealInv /\ Stays /\ [Next]_vars => Stays'
<1> SUFFICES ASSUME RealInv, Stays, [Next]_vars, todo' # <<>>, cmd'.name \in Checked
             PROVE  /\ todo' = cmd'.calls
                    /\ OneNumber(cmd')
                    /\ link' = "reply" /\ reply'.ret = "ok" /\ Impl[Head(todo').f].set # "" =>
                         dev'[KeyOf(Head(todo').f, Arguments', Impl[Head(todo').f].set)]
                           = Stored(Head(todo').f, Arguments')
  BY DEF Stays, OneNumber
<1> DEFINE Rest == /\ todo' = cmd'.calls
                   /\ OneNumber(cmd')
                   /\ link' = "reply" /\ reply'.ret = "ok" /\ Impl[Head(todo').f].set # "" =>
                        dev'[KeyOf(Head(todo').f, Arguments', Impl[Head(todo').f].set)]
                          = Stored(Head(todo').f, Arguments')
<1>1. ASSUME NEW i \in Invocation, Start(i)
      PROVE  Rest
  <2>1. cmd' = i /\ todo' = i.calls /\ link' = "none"
    BY <1>1 DEF Start, RealInv, StepInv, InStep
  <2>2. OneNumber(i)
    BY <2>1, InvocationFaithful DEF Faithful
  <2>3. QED
    BY <2>1, <2>2
<1>2. ASSUME todo' = todo, cmd' = cmd, todo # <<>>, link' # "reply" \/ reply'.ret # "ok"
      PROVE  Rest
  BY <1>2 DEF Stays
<1>3. ASSUME Send
      PROVE  Rest
  BY <1>2, <1>3 DEF Send
<1>4. CASE Lose \/ ReturnError
  BY <1>4 DEF Lose, ReturnError, Abort
<1>5. ASSUME Return
      PROVE  FALSE
  <2>1. todo' = Tail(todo) /\ cmd' = cmd
    BY <1>5 DEF Return
  <2>2. todo # <<>>
    BY <1>5 DEF Return, RealInv, StepInv, InStep
  <2>3. OneNumber(cmd) /\ todo = cmd.calls
    BY <2>1, <2>2 DEF Stays
  <2>4. PICK c : todo = <<c>>
    BY <2>3 DEF OneNumber
  <2>5. QED
    BY <2>1, <2>4
<1>6. ASSUME Serve
      PROVE  Rest
  <2> DEFINE c == Head(todo)
             k == KeyOf(c.f, Arguments, Impl[c.f].set)
  <2>1. /\ todo' = todo
        /\ cmd' = cmd
        /\ dev' = IF Impl[c.f].set = "" THEN dev ELSE [dev EXCEPT ![k] = Stored(c.f, Arguments)]
    BY <1>6 DEF Serve
  <2>2. Arguments' = Arguments
    BY <2>1 DEF Arguments
  <2>3. todo = cmd.calls /\ OneNumber(cmd)
    BY <2>1 DEF Stays
  <2>4. ASSUME Impl[c.f].set # ""
        PROVE  k \in DOMAIN dev
    <3>1. HasArguments(c) /\ c \in Calls
      BY <2>1, FirstCall
    <3>2. k = KeyOf(c.f, c.a, Impl[c.f].set)
      BY <3>1, SameKey DEF Arguments
    <3>3. k \in Key
      BY <2>4, <3>1, <3>2, PlaceFound
    <3>4. QED
      BY <3>3 DEF RealInv, TypeOK
  <2>5. QED
    BY <2>1, <2>2, <2>3, <2>4
<1>7. ASSUME ServeError
      PROVE  Rest
  <2>1. reply'.ret # "ok"
    BY <1>7, Refusals DEF ServeError, Answer
  <2>2. QED
    BY <1>2, <1>7, <2>1 DEF ServeError
<1>8. ASSUME NEW s \in DOMAIN Own, NEW v \in Own[s], Move(s, v)
      PROVE  Rest
  <2> DEFINE c == Head(todo)
             k == KeyOf(c.f, Arguments, Impl[c.f].set)
  <2>1. /\ UNCHANGED <<todo, cmd, link, reply>>
        /\ dev' = [dev EXCEPT ![<<s, 0>>] = <<v>>]
    BY <1>8 DEF Move
  <2>2. Arguments' = Arguments
    BY <2>1 DEF Arguments
  <2>3. todo = cmd.calls /\ OneNumber(cmd)
    BY <2>1 DEF Stays
  <2>4. ASSUME Impl[c.f].set # ""
        PROVE  dev'[k] = dev[k]
    <3>1. Impl[c.f].set \notin DOMAIN Own
      <4>1. PICK d : cmd.calls = <<d>> /\ (Impl[d.f].set # "" => Impl[d.f].set \notin DOMAIN Own)
        BY <2>3 DEF OneNumber
      <4>2. c = d
        <5>1. todo = <<d>>
          BY <2>3, <4>1
        <5>2. QED
          BY <5>1
      <4>3. QED
        BY <2>4, <4>1, <4>2
    <3>2. k # <<s, 0>>
      BY <3>1 DEF KeyOf
    <3>3. dev \in [Key -> Seq(Int)]
      BY DEF RealInv, TypeOK
    <3>4. HasArguments(c) /\ c \in Calls
      BY <2>1, FirstCall
    <3>5. k = KeyOf(c.f, c.a, Impl[c.f].set)
      BY <3>4, SameKey DEF Arguments
    <3>6. k \in Key
      BY <2>4, <3>4, <3>5, PlaceFound
    <3>7. QED
      BY <2>1, <3>2, <3>3, <3>6
  <2>5. QED
    BY <2>1, <2>2, <2>3, <2>4 DEF Stays
<1>9. ASSUME UNCHANGED vars
      PROVE  Rest
  BY <1>9 DEF vars, Stays, Arguments
<1>10. QED
  BY <1>1, <1>3, <1>4, <1>5, <1>6, <1>7, <1>8, <1>9 DEF Next

\* A command that checks the number it is given stores that number or fails.
THEOREM NumbersArrive == Spec => CheckedNumberStored
<1>1. Init => RealInv /\ Stays
  BY InitRealInv, InitStays
<1>2. RealInv /\ Stays /\ [Next]_vars => (RealInv /\ Stays)'
  BY NextRealInv, NextStays
<1> DEFINE Set == Impl[Head(todo).f].set
           Arrived == todo # <<>> /\ todo' = <<>> /\ result'.status = "ok" /\ cmd.number < Word
                      /\ cmd.name \in {"audio-volume", "mixer-volume", "backlight-brightness"}
                      /\ Set # "" => dev[KeyOf(Head(todo).f, Head(todo).a, Set)] = <<cmd.number>>
<1>3. RealInv /\ Stays /\ [Next]_vars => [Arrived]_vars
  <2> SUFFICES ASSUME RealInv, Stays, Next,
                      todo # <<>>, todo' = <<>>, result'.status = "ok", cmd.number < Word,
                      cmd.name \in Checked, Set # ""
               PROVE  dev[KeyOf(Head(todo).f, Head(todo).a, Set)] = <<cmd.number>>
    BY DEF Checked
  <2> DEFINE c == Head(todo)
  <2>1. PICK d : /\ cmd.calls = <<d>>
                 /\ d.f # "mixer_loopback_enable"
                 /\ Impl[d.f].set # "" /\ cmd.number < Word => Stored(d.f, Wire(d.f, d.a)) = <<cmd.number>>
    BY DEF Stays, OneNumber
  <2>2. c = d /\ todo = cmd.calls
    <3>1. todo = cmd.calls
      BY DEF Stays
    <3>2. todo = <<d>>
      BY <2>1, <3>1
    <3>3. c = d
      BY <3>2, FirstOfOne
    <3>4. QED
      BY <3>1, <3>3
  <2>3. Stored(c.f, Arguments) = <<cmd.number>>
    BY <2>1, <2>2 DEF Arguments
  <2>4. ASSUME NEW error, Abort(error)
        PROVE  error = "ok"
    BY <2>1, <2>2, <2>4 DEF Abort, Forgiven, Pending
  <2>5. link = "reply" /\ reply.ret = "ok"
    <3>1. CASE Return
      BY <3>1 DEF Return
    <3>2. CASE Lose
      BY <2>4, <3>2 DEF Lose
    <3>3. CASE ReturnError
      BY <2>4, <3>3 DEF ReturnError
    <3>4. QED
      BY <3>1, <3>2, <3>3 DEF Next, Start, Send, Serve, ServeError, Move
  <2>6. dev[KeyOf(c.f, Arguments, Set)] = <<cmd.number>>
    BY <2>3, <2>5 DEF Stays
  <2>7. HasArguments(c)
    BY QueueTail DEF RealInv, StepInv
  <2>8. QED
    BY <2>6, <2>7, SameKey DEF Arguments
<1>4. QED
  BY <1>1, <1>2, <1>3, PTL DEF Spec, CheckedNumberStored
=============================================================================
