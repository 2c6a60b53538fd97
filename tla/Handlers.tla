------------------------------ MODULE Handlers ------------------------------
(***************************************************************************)
(* The daemon's handlers that pass a remote call on to a manager of        *)
(* remote-control: src/src/rcrpc/audio.c, mixer.c, backlight.c, handset.c, *)
(* media-player.c, modem.c, voip.c, smartcard.c, sound.c, task-manager.c,  *)
(* lldp.c and tuner.c, with the widths and enumerations of protocol.xml.   *)
(*                                                                         *)
(* The managers are external.  What one keeps is a setting: a sequence of  *)
(* numbers under a key.  Strings, buffers and booleans are numbers.  The   *)
(* handlers no function of the client library calls are left out.          *)
(***************************************************************************)
EXTENDS Integers, Sequences

CONSTANTS
  Byte, Half, Word,   \* 2^8, 2^16 and 2^32, or smaller stand-ins
  CardTypeNone        \* what rpcgen makes of the first card type: its number
                      \* is given as VALUE, where the others have value

ASSUME WidthAssumption ==
  /\ Byte \in Nat /\ Half \in Nat /\ Word \in Nat
  /\ 1 < Byte /\ Byte < Half /\ Half < Word
  /\ CardTypeNone \in Int

-----------------------------------------------------------------------------
(* Which setting a handler changes, and which one it reports.              *)

Setting(set, get, adds) == [set |-> set, get |-> get, adds |-> adds]

Sets(s) == Setting(s, "", <<>>)
Puts(s, v) == Setting(s, "", <<v>>)
Gets(s) == Setting("", s, <<>>)
Unimplemented == Setting("", "", <<>>)

AudioImpl == [
  audio_set_state  |-> Sets("audio_state"), audio_get_state  |-> Gets("audio_state"),
  audio_set_volume |-> Sets("volume"),      audio_get_volume |-> Gets("volume")]

MixerImpl == [
  mixer_set_volume       |-> Sets("mixer_volume"), mixer_get_volume       |-> Gets("mixer_volume"),
  mixer_set_mute         |-> Sets("mute"),         mixer_is_muted         |-> Gets("mute"),
  mixer_set_input_source |-> Sets("input"),          mixer_get_input_source |-> Gets("input"),
  mixer_loopback_enable  |-> Sets("loopback"),       mixer_loopback_is_enabled |-> Gets("loopback")]

BacklightImpl == [
  backlight_enable |-> Sets("backlight"),
  backlight_set    |-> Sets("brightness"), backlight_get |-> Gets("brightness")]

HandsetImpl == [
  handset_display_clear          |-> Puts("display", 0),
  handset_display_sync           |-> Puts("display", 1),
  handset_display_set_brightness |-> Sets("display_brightness"),
  handset_keypad_set_brightness  |-> Sets("keypad_brightness"),
  handset_show_icon |-> Puts("icon", 1), handset_hide_icon |-> Puts("icon", 0),
  handset_show_text |-> Puts("text", 1),   handset_hide_text |-> Puts("text", 0)]

\* The states of the media player, and one state of a VoIP account.
Stopped == 0
Playing == 1
Paused  == 2
LoggedIn == 1

MediaPlayerImpl == [
  media_player_start  |-> Puts("player", Playing), media_player_stop   |-> Puts("player", Stopped),
  media_player_pause  |-> Puts("player", Paused),  media_player_resume |-> Puts("player", Playing),
  media_player_is_running |-> Gets("player"),
  media_player_set_stream |-> Sets("uri"), media_player_get_stream |-> Gets("uri"),
  media_player_set_crop   |-> Sets("crop"),
  media_player_set_output_window |-> Sets("window"),
  media_player_get_duration |-> Gets("duration"),
  media_player_get_position |-> Gets("position"), media_player_set_position |-> Sets("position")]

ModemImpl == [
  modem_init |-> Puts("modem", 1), modem_deinit |-> Puts("modem", 0),
  modem_pick_up |-> Puts("modem_call", 1), modem_hang_up |-> Puts("modem_call", 0),
  modem_dial |-> Puts("modem_call", 2),
  modem_is_calling |-> Gets("modem_call"), modem_is_connected |-> Gets("modem_call")]

VoipImpl == [
  voip_login  |-> Puts("account", 1), voip_logout |-> Puts("account", 0),
  voip_still_logged_in |-> Gets("login_state"),
  voip_connect_to |-> Puts("voip_call", 1), voip_disconnect |-> Puts("voip_call", 0),
  voip_accept_incoming |-> Setting("voip_call", "caller", <<1>>),
  voip_dial |-> Sets("dtmf")]

CardImpl == [
  card_get_type |-> Gets("card_type"), card_read |-> Gets("card"), card_write |-> Sets("card")]

SoundImpl == [sound_play |-> Puts("sound", 1), sound_stop |-> Puts("sound", 0)]

TaskManagerImpl == [
  task_manager_exec |-> Setting("task", "pid", <<>>), task_manager_kill |-> Sets("signal")]

LldpImpl == [lldp_read |-> Gets("frame")]

TunerImpl == [tuner_set_frequency |-> Unimplemented]

Managers == {
  AudioImpl, MixerImpl, BacklightImpl, HandsetImpl, MediaPlayerImpl, ModemImpl, VoipImpl,
  CardImpl, SoundImpl, TaskManagerImpl, LldpImpl, TunerImpl}

\* The functions of the protocol that are called, and their handlers.
Function == UNION {DOMAIN m : m \in Managers}

Impl == [f \in Function |-> (CHOOSE m \in Managers : f \in DOMAIN m)[f]]

\* The same setting exists for each of several mixer controls, icons or
\* offsets: the first argument of these handlers tells which.
Indexed == {
  "mixer_set_volume", "mixer_get_volume", "mixer_set_mute", "mixer_is_muted",
  "handset_show_icon", "handset_hide_icon", "card_read", "card_write"}

KeyOf(f, a, s) == <<s, IF f \in Indexed THEN a[1] ELSE 0>>

-----------------------------------------------------------------------------
(* Enumerations.  A manager's state is its position in the switch of the   *)
(* handler, or 0 if the switch does not list it.                           *)

\* enum audio_state of protocol.xml, without UNKNOWN, in the order of audio.c
RpcAudio == <<0, 10, 11, 20, 21, 22, 30, 31, 32, 40, 41>>
RpcAudioUnknown == -1

\* enum mixer_input_source of protocol.xml: UNKNOWN is 0
RpcInput == <<1, 2, 3>>

\* I2C, T0 and T1, in the order of smartcard.c; UNKNOWN follows NONE
RpcCard == <<CardTypeNone + 5, CardTypeNone + 3, CardTypeNone + 4>>
RpcCardUnknown == CardTypeNone + 1

Position(n, enum) == IF \E i \in DOMAIN enum : enum[i] = n THEN CHOOSE i \in DOMAIN enum : enum[i] = n ELSE 0

Number(i, enum, unknown) == IF i \in DOMAIN enum THEN enum[i] ELSE unknown

-----------------------------------------------------------------------------
(* Arguments and results.                                                  *)

\* An argument reduced to the type it has in protocol.xml.
Wire(f, a) ==
  [i \in DOMAIN a |->
    CASE \/ f \in {"audio_set_volume", "backlight_set", "handset_display_set_brightness",
                   "handset_keypad_set_brightness", "voip_dial"}
         \/ f = "mixer_set_volume" /\ i = 2                             -> a[i] % Byte
      [] f \in {"media_player_set_output_window", "media_player_set_crop"} -> a[i] % Half
      [] \/ f = "media_player_set_position"
         \/ f \in {"handset_show_text", "handset_hide_text"} /\ i < 3 -> a[i] % Word
      [] OTHER -> a[i]]

\* The port voip_login gives to the manager.
SipPort == 5060

\* What the handler makes of the arguments it receives.
ManagerArgs(f, a) ==
  CASE f = "audio_set_state"        -> <<Position(a[1], RpcAudio)>>   \* force is dropped
    [] f = "mixer_set_input_source" -> <<Position(a[1], RpcInput)>>
    [] f = "backlight_enable"       -> <<a[1] % 2>>
    [] f = "voip_login"             -> <<a[1], SipPort, a[3], a[4], a[2]>>
    [] OTHER                        -> a

\* The new value of the setting the handler changes.
Stored(f, a) ==
  LET m == ManagerArgs(f, a)
  IN  (IF f \in Indexed THEN Tail(m) ELSE m) \o Impl[f].adds

\* Whether the handler refuses arguments before it asks the manager, and how.  That
\* voip_login refuses a transport out of range is left out: this client sends 0.
Refusal(f, a) ==
  CASE Impl[f] = Unimplemented -> "ENOSYS"
    [] f = "audio_set_state" /\ Position(a[1], RpcAudio) = 0 -> "EINVAL"
    [] OTHER -> "none"

\* Mutant: the manager's number is taken for the number of the protocol.
ReportedUnmapped(f, v) ==
  CASE f = "mixer_get_volume" -> <<v[1] % Byte>>
    [] f \in {"media_player_get_duration", "media_player_get_position"} -> <<v[1] % Word>>
    [] f = "media_player_is_running" -> <<IF v[1] = Playing THEN 1 ELSE 0>>
    [] f = "voip_still_logged_in"    -> <<IF v[1] = LoggedIn THEN 1 ELSE 0>>
    [] f \in {"modem_is_calling", "modem_is_connected"} -> <<0>>
    [] OTHER -> v

\* What the handler makes of the setting it reports.  The switches of the two
\* modem queries have no case but false.
Reported(f, v) ==
  CASE f = "audio_get_state"         -> <<Number(v[1], RpcAudio, RpcAudioUnknown)>>
    [] f = "mixer_get_input_source"  -> <<Number(v[1], RpcInput, 0)>>
    [] f = "card_get_type"           -> <<Number(v[1], RpcCard, RpcCardUnknown)>>
    [] f = "mixer_get_volume"        -> <<v[1] % Byte>>
    [] f \in {"media_player_get_duration", "media_player_get_position"} -> <<v[1] % Word>>
    [] f = "media_player_is_running" -> <<IF v[1] = Playing THEN 1 ELSE 0>>
    [] f = "voip_still_logged_in"    -> <<IF v[1] = LoggedIn THEN 1 ELSE 0>>
    [] f \in {"modem_is_calling", "modem_is_connected"} -> <<0>>
    [] OTHER -> v
=============================================================================
