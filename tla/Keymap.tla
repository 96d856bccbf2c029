------------------------------- MODULE Keymap -------------------------------
(* The scancode of a DOM key code, with its E0 flag (src/src/keymap.rs). *)
EXTENDS Integers, Sequences

\* Keys with consecutive scancodes, from the first on
Keys(first, extended, codes) ==
  {[code |-> codes[i], scancode |-> <<first + i - 1, extended>>] : i \in DOMAIN codes}

\* The keys of the main block, whose scancodes run from 1
MainKeys == <<
  "Escape", "Digit1", "Digit2", "Digit3", "Digit4", "Digit5", "Digit6", "Digit7", "Digit8",
  "Digit9", "Digit0", "Minus", "Equal", "Backspace", "Tab",
  "KeyQ", "KeyW", "KeyE", "KeyR", "KeyT", "KeyY", "KeyU", "KeyI", "KeyO", "KeyP",
  "BracketLeft", "BracketRight", "Enter", "ControlLeft",
  "KeyA", "KeyS", "KeyD", "KeyF", "KeyG", "KeyH", "KeyJ", "KeyK", "KeyL",
  "Semicolon", "Quote", "Backquote", "ShiftLeft", "Backslash",
  "KeyZ", "KeyX", "KeyC", "KeyV", "KeyB", "KeyN", "KeyM", "Comma", "Period", "Slash",
  "ShiftRight", "NumpadMultiply", "AltLeft", "Space", "CapsLock",
  "F1", "F2", "F3", "F4", "F5", "F6", "F7", "F8", "F9", "F10", "NumLock", "ScrollLock",
  "Numpad7", "Numpad8", "Numpad9", "NumpadSubtract", "Numpad4", "Numpad5", "Numpad6",
  "NumpadAdd", "Numpad1", "Numpad2", "Numpad3", "Numpad0", "NumpadDecimal">>

Entries == UNION {
  Keys(1, FALSE, MainKeys),
  Keys(87, FALSE, <<"F11", "F12">>),
  Keys(28, TRUE, <<"NumpadEnter", "ControlRight">>),
  Keys(53, TRUE, <<"NumpadDivide">>),
  Keys(56, TRUE, <<"AltRight">>),
  Keys(71, TRUE, <<"Home", "ArrowUp", "PageUp">>),
  Keys(75, TRUE, <<"ArrowLeft">>),
  Keys(77, TRUE, <<"ArrowRight">>),
  Keys(79, TRUE, <<"End", "ArrowDown", "PageDown", "Insert", "Delete">>),
  Keys(91, TRUE, <<"MetaLeft", "MetaRight", "ContextMenu">>)}

MappedCodes == {e.code : e \in Entries}

\* Slip: the E0 flag of the cursor keys and their neighbours is forgotten.
scancodeUnextended ==
  [c \in MappedCodes |-> <<(CHOOSE e \in Entries : e.code = c).scancode[1], FALSE>>]

\* keymap::scancode, where it is Some
scancode == [c \in MappedCodes |-> (CHOOSE e \in Entries : e.code = c).scancode]
=============================================================================
