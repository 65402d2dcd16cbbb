---------------------------- MODULE MCBluetooth ----------------------------
EXTENDS Bluetooth
=============================================================================
