------------------------------ MODULE Commands ------------------------------
(***************************************************************************)
(* The commands of the client (src/bin/commands.c), the functions of the   *)
(* client library that they and other applications call                    *)
(* (src/src/rcrpc-client/), and the daemon's handlers (Handlers).          *)
(*                                                                         *)
(* A command checks its words and makes library calls one after the other. *)
(* A library call sends a request and waits for the reply; librpc, which   *)
(* carries them, is external: it delivers each at most once, or reports an *)
(* error.  The commands of the GPIO pins and of the interrupts are in Gpio *)
(* and Irq.                                                                *)
(***************************************************************************)
EXTENDS Handlers

CONSTANTS
  Typed,       \* numbers typed as words
  Text,        \* strings typed as words
  MaxEvents    \* bound on commands given and on settings that move

ASSUME CommandsAssumption ==
  /\ Typed \subseteq Nat
  /\ Text \subseteq Nat
  /\ MaxEvents \in Nat

-----------------------------------------------------------------------------
(* What the words of a command make it do.                                 *)

Call(f, a) == [f |-> f, a |-> a]

\* A command: the calls it makes and, if it makes none, what it returns.
\* "number" is the number typed, for commands that take one.
Command(name, calls, number, verdict) ==
  [name |-> name, calls |-> calls, number |-> number, verdict |-> verdict]

Runs(name, calls) == Command(name, calls, 0, "pending")
Gives(name, n, f, a) == Command(name, <<Call(f, a)>>, n, "pending")
Rejects(name) == Command(name, <<>>, 0, "EINVAL")
Shows(name, f, a) == Runs(name, <<Call(f, a)>>)

\* Words that name one of the six controls of mixer_control_map stand for the
\* numbers from 1, those of the inputs likewise; other words mean UNKNOWN.
Control == 0..6
Input == 0..3

\* Words that turn something off or on.
Switch == 0..1

\* The ids of audio_state_map; the first is UNKNOWN.
AudioStateMap == <<-1, 0, 10, 11, 20, 21, 22, 30, 31, 32>>

\* parse_audio_state finds numbers of the map; a word that is no number, be it
\* a name of the map, never gets to the names.
ParseAudioState(n) == IF Position(n, AudioStateMap) > 0 THEN n ELSE -1

\* The name audio_state_name finds: its position in the map, or 0 for "unknown".
AudioStateName(id) == Position(id, AudioStateMap)

\* atol gives a long, which audio-volume keeps in an int32_t before it looks.
AudioVolume(n) ==
  IF n % Word < Byte THEN Gives("audio-volume", n, "audio_set_volume", <<n>>) ELSE Rejects("audio-volume")

AudioCommands ==
  {Shows("audio-volume", "audio_get_volume", <<>>), Shows("audio-state", "audio_get_state", <<>>)}
  \cup {AudioVolume(n) : n \in Typed}
  \cup {Runs("audio-state", <<Call("audio_set_state", <<ParseAudioState(n), 1>>)>>) :
          n \in {AudioStateMap[i] : i \in DOMAIN AudioStateMap} \cup Typed}

\* Mutant: any number will do.
MixerVolumeUnchecked(c, n) == Gives("mixer-volume", n, "mixer_set_volume", <<c, n>>)

MixerVolume(c, n) ==
  IF n < Byte THEN Gives("mixer-volume", n, "mixer_set_volume", <<c, n>>) ELSE Rejects("mixer-volume")

MixerMute(c, b) == Runs("mixer-mute", <<Call("mixer_set_mute", <<c, b>>)>>)

MixerCommands ==
  {MixerVolume(c, n) : c \in Control, n \in Typed}
  \cup {Shows("mixer-volume", "mixer_get_volume", <<c>>) : c \in Control}
  \cup {MixerMute(c, b) : c \in Control, b \in Switch}
  \cup {Shows("mixer-mute", "mixer_is_muted", <<c>>) : c \in Control}
  \cup {Runs("mixer-input", <<Call("mixer_set_input_source", <<i>>)>>) : i \in Input}
  \cup {Runs("mixer-loopback", <<Call("mixer_loopback_enable", <<b>>)>>) : b \in Switch}
  \cup {Shows("mixer-input", "mixer_get_input_source", <<>>),
        Shows("mixer-loopback", "mixer_loopback_is_enabled", <<>>),
        Rejects("mixer-volume"), Rejects("mixer-mute"), Rejects("mixer-loopback")}

BacklightCommands ==
  {Runs("backlight-power", <<Call("backlight_enable", <<b>>)>>) : b \in Switch}
  \cup {IF n < Byte THEN Gives("backlight-brightness", n, "backlight_set", <<n>>)
        ELSE Rejects("backlight-brightness") : n \in Typed}
  \cup {Shows("backlight-brightness", "backlight_get", <<>>),
        Rejects("backlight-power"), Rejects("backlight-brightness")}

\* Words that are missing leave UINT16_MAX; if no other number remains, the
\* command succeeds without a call.
Window(n, words) ==
  LET w == [i \in 1..4 |-> IF i <= words THEN n % Half ELSE Half - 1]
  IN  IF \A i \in 1..4 : w[i] = Half - 1
      THEN Command("media-player-output", <<>>, n, "ok")
      ELSE Gives("media-player-output", n, "media_player_set_output_window", w)

MediaPlayerUri(u) == Runs("media-player-uri", <<Call("media_player_set_stream", <<u>>)>>)

\* The position is not checked: strtoul gives a long.
MediaPlayerPosition(n) == Gives("media-player-position", n, "media_player_set_position", <<n>>)

\* A player that is paused counts as stopped.
MediaPlayerState == Shows("media-player-state", "media_player_is_running", <<>>)

MediaPlayerCommands ==
  {MediaPlayerUri(u) : u \in Text}
  \cup {Window(n, words) : n \in Typed, words \in 0..4}
  \cup {Runs("media-player-play", <<Call("media_player_set_stream", <<u>>), Call("media_player_start", <<>>)>>) :
          u \in Text}
  \cup {MediaPlayerPosition(n) : n \in Typed}
  \cup {Runs("media-player-play", <<Call("media_player_start", <<>>)>>),
        Runs("media-player-stop", <<Call("media_player_stop", <<>>)>>),
        Runs("media-player-pause", <<Call("media_player_pause", <<>>)>>),
        Runs("media-player-resume", <<Call("media_player_resume", <<>>)>>),
        Shows("media-player-uri", "media_player_get_stream", <<>>),
        Shows("media-player-duration", "media_player_get_duration", <<>>),
        Shows("media-player-position", "media_player_get_position", <<>>),
        MediaPlayerState,
        Rejects("media-player-position")}

SoundCommands ==
  {Runs("sound-play", <<Call("sound_play", <<u>>)>>) : u \in Text}
  \cup {Runs("sound-stop", <<Call("sound_stop", <<>>)>>), Rejects("sound-play")}

\* modem-call without a word is left to Shell.
ModemCommands ==
  {Runs("modem-call", <<Call("modem_dial", <<t>>)>>) : t \in Text}
  \cup {Runs("modem-accept", <<Call("modem_pick_up", <<>>)>>),
        Runs("modem-terminate", <<Call("modem_hang_up", <<>>)>>),
        Runs("modem-reset", <<Call("modem_deinit", <<>>), Call("modem_init", <<>>)>>)}

\* task-kill takes SIGTERM unless a signal is given.
SIGTERM == 15

TaskKill(pid, sig) == Runs("task-kill", <<Call("task_manager_kill", <<pid, sig>>)>>)

TaskCommands ==
  {Shows("task-exec", "task_manager_exec", <<t>>) : t \in Text}
  \cup {TaskKill(pid, sig) : pid \in Typed, sig \in Typed \cup {SIGTERM}}
  \cup {Rejects("task-exec"), Rejects("task-kill")}

\* The tone is the first character of the word.
VoipDtmf(n) == Runs("voip-dtmf", <<Call("voip_dial", <<n>>)>>)

\* A port that is no number is rejected, any other is dropped: remote_voip_login sends
\* none, and a transport of 0.  With too few words the command does not get as far as
\* a call (Shell).
VoipCommands ==
  {Runs("voip-login", <<Call("voip_login", <<t, 0, t, t>>)>>) : t \in Text}
  \cup {Runs("voip-call", <<Call("voip_connect_to", <<t>>)>>) : t \in Text}
  \cup {VoipDtmf(n) : n \in Typed \cap 0..(Byte - 1)}
  \cup {Runs("voip-logout", <<Call("voip_logout", <<>>)>>),
        Runs("voip-terminate", <<Call("voip_disconnect", <<>>)>>),
        Shows("voip-accept", "voip_accept_incoming", <<>>),
        Rejects("voip-login"), Rejects("voip-call"), Rejects("voip-dtmf")}

\* Icons are words, numbered as in enum remote_handset_icon.
Icon == 0..3

HandsetBacklight(n, f) == Gives("handset-backlight", n, f, <<n>>)

HandsetShowText(x, y, t) == Runs("handset-show-text", <<Call("handset_show_text", <<x, y, t>>)>>)

HandsetCommands ==
  {HandsetBacklight(n, f) :
     n \in Typed, f \in {"handset_display_set_brightness", "handset_keypad_set_brightness"}}
  \cup {Runs("handset-show-icon", <<Call("handset_show_icon", <<i>>)>>) : i \in Icon}
  \cup {HandsetShowText(x, y, t) :
          x \in Typed \cup {8}, y \in Typed \cup {48}, t \in Text}
  \cup {Runs("handset-display-clear", <<Call("handset_display_clear", <<>>)>>),
        Runs("handset-display-sync", <<Call("handset_display_sync", <<>>)>>),
        Rejects("handset-backlight"), Rejects("handset-show-icon"), Rejects("handset-show-text")}

SmartcardRead == Shows("smartcard-read", "card_read", <<0>>)

LldpDump == Shows("lldp-dump", "lldp_read", <<>>)

OtherCommands ==
  {Runs("tuner-frequency", <<Call("tuner_set_frequency", <<n>>)>>) : n \in Typed}
  \cup {SmartcardRead, LldpDump, Rejects("tuner-frequency")}

\* Functions of the library that only other applications call.
Application(f, a) == Runs("application", <<Call(f, a)>>)

HideText(n, t) == Application("handset_hide_text", <<n, n, t>>)

LibraryCalls ==
  {Application("card_write", <<0, t>>) : t \in Text}
  \cup {Application("handset_hide_icon", <<i>>) : i \in Icon}
  \cup {HideText(n, t) : n \in Typed, t \in Text}
  \cup {Application("media_player_set_crop", <<n, n, n, n>>) : n \in Typed}
  \cup {Application(f, <<>>) : f \in {"card_get_type", "voip_still_logged_in", "modem_is_calling", "modem_is_connected"}}

Invocation ==
  AudioCommands \cup MixerCommands \cup BacklightCommands \cup MediaPlayerCommands \cup SoundCommands
  \cup ModemCommands \cup TaskCommands \cup VoipCommands \cup HandsetCommands \cup OtherCommands
  \cup LibraryCalls
=============================================================================
